---------------------------- MODULE Spec2Model ----------------------------
(***************************************************************************)
(* TaskFlow Lite: the task store (TaskFlowApp), its validator, the        *)
(* localStorage gateway and the confirmation dialog.                      *)
(*                                                                         *)
(* A text is a sequence of one-character strings.  A task is a record     *)
(* [id, text, completed, createdAt].  The durable slot holds what         *)
(* JSON.parse would make of the stored string.                            *)
(***************************************************************************)
EXTENDS Integers, Sequences, FiniteSets, TLC

-----------------------------------------------------------------------------
(* Bounds of the model *)

\* largest number of tasks the collection is grown to
MaxTasks == 3
\* number of saveTasks calls in a row that the store refuses
MaxRefused == 1
\* number of clock readings (milliseconds) a session sees
MaxNow == 2
\* number of distinct values Date.now() + Math.random() takes within one ms
RandRes == 1
\* longest tasks array found in the slot at startup
MaxStored == 2

-----------------------------------------------------------------------------
(* Characters and texts *)

UpperAlpha == <<"A","B","C","D","E","F","G","H","I","J","K","L","M",
                "N","O","P","Q","R","S","T","U","V","W","X","Y","Z">>

LowerAlpha == <<"a","b","c","d","e","f","g","h","i","j","k","l","m",
                "n","o","p","q","r","s","t","u","v","w","x","y","z">>

Digits == {"0","1","2","3","4","5","6","7","8","9"}

\* \s of the regular expressions and the characters String.trim strips
Whitespace == {" ", "\t", "\n"}

\* the grave accent character of ALLOWED_CHARS, which the TLA+ lexer cannot
\* hold in a string literal
GraveAccent == "grave"

Punctuation == {"-","_",".",",","!","?","@","#","$","%","&","*","(",")","+",
                "=",":",";","\"","'","<",">","[","]","{","}","|","\\","/",
                "~", GraveAccent}

Range(s) == {s[i] : i \in DOMAIN s}

MIN_LENGTH == 1

MAX_LENGTH == 200

\* VALIDATION_RULES.ALLOWED_CHARS, one character
AllowedChar(c) ==
    \/ c \in Range(UpperAlpha)
    \/ c \in Range(LowerAlpha)
    \/ c \in Digits
    \/ c \in Whitespace
    \/ c \in Punctuation

FORBIDDEN_WORDS ==
    { <<"s","c","r","i","p","t">>,
      <<"j","a","v","a","s","c","r","i","p","t">>,
      <<"o","n","l","o","a","d">>,
      <<"o","n","e","r","r","o","r">>,
      <<"o","n","c","l","i","c","k">> }

\* String.prototype.toLowerCase on one character
LowerChar(c) ==
    IF c \in Range(UpperAlpha)
    THEN LowerAlpha[CHOOSE i \in DOMAIN UpperAlpha : UpperAlpha[i] = c]
    ELSE c

ToLowerCase(s) == [i \in DOMAIN s |-> LowerChar(s[i])]

\* a trim that strips one whitespace character at most from each end
TrimOnce(s) ==
    LET a == IF s # <<>> /\ s[1] \in Whitespace THEN Tail(s) ELSE s
    IN  IF a # <<>> /\ a[Len(a)] \in Whitespace THEN SubSeq(a, 1, Len(a) - 1) ELSE a

\* String.prototype.trim
Trim(s) ==
    IF \A i \in DOMAIN s : s[i] \in Whitespace THEN <<>>
    ELSE LET lo == CHOOSE i \in DOMAIN s :
                      /\ s[i] \notin Whitespace
                      /\ \A j \in 1..(i - 1) : s[j] \in Whitespace
             hi == CHOOSE i \in DOMAIN s :
                      /\ s[i] \notin Whitespace
                      /\ \A j \in (i + 1)..Len(s) : s[j] \in Whitespace
         IN  SubSeq(s, lo, hi)

\* String.prototype.includes
Includes(s, w) ==
    \E i \in 1..(Len(s) - Len(w) + 1) : SubSeq(s, i, i + Len(w) - 1) = w

\* /\s{3,}/.test
ExcessiveWhitespace(s) ==
    \E i \in 1..(Len(s) - 2) : \A k \in 0..2 : s[i + k] \in Whitespace

\* /(.)\1{4,}/.test ; the dot does not match a line terminator
RepetitiveChars(s) ==
    \E i \in 1..(Len(s) - 4) :
        /\ s[i] # "\n"
        /\ \A k \in 1..4 : s[i + k] = s[i]

\* a validator that looks for the forbidden words before the characters
validateTaskTextWordsFirst(text) ==
    LET trimmedText == Trim(text)
        fail(m) == [isValid |-> FALSE, message |-> m, sanitizedText |-> <<>>]
    IN  IF text = <<>> THEN fail("required")
        ELSE IF Len(trimmedText) < MIN_LENGTH THEN fail("empty")
        ELSE IF Len(trimmedText) > MAX_LENGTH THEN fail("tooLong")
        ELSE IF \E w \in FORBIDDEN_WORDS : Includes(ToLowerCase(trimmedText), w)
             THEN fail("forbidden")
        ELSE IF \E i \in DOMAIN trimmedText : ~AllowedChar(trimmedText[i])
             THEN fail("invalidChars")
        ELSE IF ExcessiveWhitespace(trimmedText) THEN fail("excessiveWhitespace")
        ELSE IF RepetitiveChars(trimmedText) THEN fail("repetitive")
        ELSE [isValid |-> TRUE, message |-> "", sanitizedText |-> trimmedText]

\* validateTaskText: the result record {isValid, message, sanitizedText}
validateTaskText(text) ==
    LET trimmedText == Trim(text)
        fail(m) == [isValid |-> FALSE, message |-> m, sanitizedText |-> <<>>]
    IN  IF text = <<>> THEN fail("required")
        ELSE IF Len(trimmedText) < MIN_LENGTH THEN fail("empty")
        ELSE IF Len(trimmedText) > MAX_LENGTH THEN fail("tooLong")
        ELSE IF \E i \in DOMAIN trimmedText : ~AllowedChar(trimmedText[i])
             THEN fail("invalidChars")
        ELSE IF \E w \in FORBIDDEN_WORDS : Includes(ToLowerCase(trimmedText), w)
             THEN fail("forbidden")
        ELSE IF ExcessiveWhitespace(trimmedText) THEN fail("excessiveWhitespace")
        ELSE IF RepetitiveChars(trimmedText) THEN fail("repetitive")
        ELSE [isValid |-> TRUE, message |-> "", sanitizedText |-> trimmedText]

-----------------------------------------------------------------------------
(* Tasks, the validator's object check and the duplicate check *)

\* validateTaskObject for a task built by createTask: the result record
\* {isValid, message, sanitizedTask}
validateTaskObject(task) ==
    LET fail(m) == [isValid |-> FALSE, message |-> m, sanitizedTask |-> task]
        textValidation == validateTaskText(task.text)
    IN  IF task.id <= 0 THEN fail("invalidId")
        ELSE IF Len(Trim(task.text)) = 0 THEN fail("invalidText")
        ELSE IF ~textValidation.isValid THEN fail(textValidation.message)
        ELSE [isValid |-> TRUE, message |-> "",
              sanitizedTask |-> [task EXCEPT !.text = textValidation.sanitizedText]]

\* a duplicate check that finds nothing
checkForDuplicatesNever(newTaskText, existingTasks) == FALSE

\* checkForDuplicates(...).hasDuplicates
checkForDuplicates(newTaskText, existingTasks) ==
    LET normalizedNewText == ToLowerCase(Trim(newTaskText))
    IN  \E i \in DOMAIN existingTasks :
            ToLowerCase(Trim(existingTasks[i].text)) = normalizedNewText

\* TaskFlowApp.createTask; t is the reading of Date.now() and r the bucket
\* that Math.random() falls into once added to it
createTask(text, t, r) ==
    [id |-> t * RandRes + r, text |-> Trim(text), completed |-> FALSE,
     createdAt |-> t]

\* the addTask of a store that inserts the raw input without validating it
addTaskUnchecked(text, ts, t, r) ==
    [branch |-> "added", message |-> "added", severity |-> "success",
     tasks |-> <<[createTask(text, t, r) EXCEPT !.text = text]>> \o ts]

\* an addTask that pushes the new task to the end of the collection
addTaskAppends(text, ts, t, r) ==
    LET validation == validateTaskText(text)
    IN  IF ~validation.isValid
        THEN [branch |-> "invalid", message |-> validation.message,
              severity |-> "error", tasks |-> ts]
        ELSE IF checkForDuplicates(validation.sanitizedText, ts)
        THEN [branch |-> "duplicate", message |-> "duplicate",
              severity |-> "warning", tasks |-> ts]
        ELSE [branch |-> "added", message |-> "added", severity |-> "success",
              tasks |-> ts \o <<createTask(validation.sanitizedText, t, r)>>]

\* an addTask without the duplicate check
addTaskSkipsDuplicates(text, ts, t, r) ==
    LET validation == validateTaskText(text)
    IN  IF ~validation.isValid
        THEN [branch |-> "invalid", message |-> validation.message,
              severity |-> "error", tasks |-> ts]
        ELSE [branch |-> "added", message |-> "added", severity |-> "success",
              tasks |-> <<createTask(validation.sanitizedText, t, r)>> \o ts]

\* TaskFlowApp.addTask up to the unshift: which return is taken, the message
\* shown, and the collection afterwards
addTaskResult(text, ts, t, r) ==
    LET validation == validateTaskText(text)
        newTask == createTask(validation.sanitizedText, t, r)
        taskValidation == validateTaskObject(newTask)
        reject(b, m, sev) == [branch |-> b, message |-> m, severity |-> sev,
                              tasks |-> ts]
    IN  IF ~validation.isValid
        THEN reject("invalid", validation.message, "error")
        ELSE IF checkForDuplicates(validation.sanitizedText, ts)
        THEN reject("duplicate", "duplicate", "warning")
        ELSE IF ~taskValidation.isValid
        THEN reject("invalidTask", taskValidation.message, "error")
        ELSE [branch |-> "added", message |-> "added", severity |-> "success",
              tasks |-> <<taskValidation.sanitizedTask>> \o ts]

\* a findIndex whose -1 is taken for the index of the last task
findIndexOrLast(ts, taskId) ==
    IF \E i \in DOMAIN ts : ts[i].id = taskId
    THEN CHOOSE i \in DOMAIN ts :
            /\ ts[i].id = taskId
            /\ \A j \in DOMAIN ts : ts[j].id = taskId => i <= j
    ELSE Len(ts)

\* Array.prototype.findIndex(task => task.id === taskId); 0 stands for -1
findIndex(ts, taskId) ==
    IF \E i \in DOMAIN ts : ts[i].id = taskId
    THEN CHOOSE i \in DOMAIN ts :
            /\ ts[i].id = taskId
            /\ \A j \in DOMAIN ts : ts[j].id = taskId => i <= j
    ELSE 0

\* Array.prototype.splice(index, 1)
splice(ts, index) ==
    [i \in 1..(Len(ts) - 1) |-> IF i < index THEN ts[i] ELSE ts[i + 1]]

\* the collection after removeTask(taskId)
removeTaskResult(ts, taskId) ==
    LET index == findIndex(ts, taskId)
    IN  IF index # 0 THEN splice(ts, index) ELSE ts

\* a toggle that marks the task completed instead of flipping it
toggleTaskSetsCompleted(ts, taskId) ==
    LET index == findIndex(ts, taskId)
    IN  IF index # 0
        THEN [ts EXCEPT ![index].completed = TRUE]
        ELSE ts

\* a toggle that flips every task that has the id
toggleTaskFlipsEveryMatch(ts, taskId) ==
    [i \in DOMAIN ts |->
        IF ts[i].id = taskId THEN [ts[i] EXCEPT !.completed = ~ts[i].completed]
        ELSE ts[i]]

\* the collection after toggleTaskCompletion(taskId)
toggleTaskResult(ts, taskId) ==
    LET index == findIndex(ts, taskId)
    IN  IF index # 0
        THEN [ts EXCEPT ![index].completed = ~ts[index].completed]
        ELSE ts

IsCompleted(task) == task.completed

IsActive(task) == ~task.completed

\* a count that takes every task for completed
completedCountOfAll(ts) == Len(ts)

\* this.tasks.filter(task => task.completed).length
completedCount(ts) == Len(SelectSeq(ts, IsCompleted))

\* a clear whose filter keeps the completed tasks
clearCompletedKeepsCompleted(ts) == SelectSeq(ts, IsCompleted)

\* this.tasks.filter(task => !task.completed)
clearCompletedResult(ts) == SelectSeq(ts, IsActive)

\* a filterTasks whose 'active' case passes everything through
filterTasksActiveIsAll(ts, filter) ==
    IF filter = "completed" THEN SelectSeq(ts, IsCompleted) ELSE ts

\* filterTasks of the render module
filterTasks(ts, filter) ==
    IF filter = "active" THEN SelectSeq(ts, IsActive)
    ELSE IF filter = "completed" THEN SelectSeq(ts, IsCompleted)
    ELSE ts

-----------------------------------------------------------------------------
(* The durable slot *)

\* the id of a task whose id is NaN or an infinity
NotANumber == -1

\* a serialization that loses the completed flag
SerializeAsActive(task) ==
    [isObject |-> TRUE, idIsNumber |-> task.id # NotANumber, textIsString |-> TRUE,
     completedIsBoolean |-> TRUE, id |-> task.id, text |-> task.text,
     completed |-> FALSE, createdAt |-> task.createdAt]

\* JSON.stringify of one task, as JSON.parse gives it back: an object whose
\* text is a string and whose completed is a boolean; a finite id comes back
\* as the same number, NaN and the infinities come back as null
Serialize(task) ==
    [isObject |-> TRUE, idIsNumber |-> task.id # NotANumber, textIsString |-> TRUE,
     completedIsBoolean |-> TRUE, id |-> task.id, text |-> task.text,
     completed |-> task.completed, createdAt |-> task.createdAt]

\* the task object that an entry of the parsed tasks array is
Deserialize(entry) ==
    [id |-> entry.id, text |-> entry.text, completed |-> entry.completed,
     createdAt |-> entry.createdAt]

Absent == [kind |-> "absent", tasks |-> <<>>]

\* the stored value {version, timestamp, tasks}
Envelope(ts) == [kind |-> "envelope", tasks |-> [i \in DOMAIN ts |-> Serialize(ts[i])]]

\* a filter callback that does not look at completed
WellShapedIgnoresCompleted(entry) ==
    /\ entry.isObject
    /\ entry.idIsNumber
    /\ entry.textIsString

\* the filter callback of loadTasks
WellShaped(entry) ==
    /\ entry.isObject
    /\ entry.idIsNumber
    /\ entry.textIsString
    /\ entry.completedIsBoolean

\* a loadTasks that leaves a corrupted payload in the slot
loadTasksKeepsCorrupt(stored) ==
    IF stored.kind = "envelope"
    THEN LET validTasks == SelectSeq(stored.tasks, WellShaped)
         IN  [tasks |-> [i \in DOMAIN validTasks |-> Deserialize(validTasks[i])],
              slot |-> stored]
    ELSE [tasks |-> <<>>, slot |-> stored]

\* a loadTasks that removes every payload it cannot use
loadTasksRemovesUnusable(stored) ==
    IF stored.kind = "envelope"
    THEN LET validTasks == SelectSeq(stored.tasks, WellShaped)
         IN  [tasks |-> [i \in DOMAIN validTasks |-> Deserialize(validTasks[i])],
              slot |-> stored]
    ELSE [tasks |-> <<>>, slot |-> Absent]

\* loadTasks: the returned array and the slot it leaves behind
loadTasks(stored) ==
    IF stored.kind = "absent" \/ stored.kind = "emptyString"
    THEN [tasks |-> <<>>, slot |-> stored]
    ELSE IF stored.kind = "corrupt"
    THEN [tasks |-> <<>>, slot |-> Absent]
    ELSE IF stored.kind = "notObject" \/ stored.kind = "noTasksArray"
    THEN [tasks |-> <<>>, slot |-> stored]
    ELSE LET validTasks == SelectSeq(stored.tasks, WellShaped)
         IN  [tasks |-> [i \in DOMAIN validTasks |-> Deserialize(validTasks[i])],
              slot |-> stored]

\* what localStorage does to the writes of one saveTasks call
WriteOutcomes == {"ok", "quotaRetryOk", "quotaRetryFails", "throws"}

\* a saveTasks that gives up on the first exception
saveTasksWithoutRetry(ts, stored, outcome) ==
    IF outcome = "ok"
    THEN [success |-> TRUE, slot |-> Envelope(ts), cleared |-> FALSE, writes |-> 1]
    ELSE [success |-> FALSE, slot |-> stored, cleared |-> FALSE, writes |-> 1]

\* saveTasks of the storage module: the returned status, the slot afterwards,
\* whether localStorage.clear() ran and how many times setItem was called
saveTasks(ts, stored, outcome) ==
    IF outcome = "ok"
    THEN [success |-> TRUE, slot |-> Envelope(ts), cleared |-> FALSE, writes |-> 1]
    ELSE IF outcome = "quotaRetryOk"
    THEN [success |-> TRUE, slot |-> Envelope(ts), cleared |-> TRUE, writes |-> 2]
    ELSE IF outcome = "quotaRetryFails"
    THEN [success |-> FALSE, slot |-> Absent, cleared |-> TRUE, writes |-> 2]
    ELSE [success |-> FALSE, slot |-> stored, cleared |-> FALSE, writes |-> 1]

-----------------------------------------------------------------------------
(* Inputs *)

\* a text longer than MAX_LENGTH without repeated characters
LongText == [i \in 1..(MAX_LENGTH + 1) |-> IF i % 2 = 1 THEN "a" ELSE "b"]

\* the texts a user submits: the empty text, a blank one, a valid text, the
\* same text with outer blanks, the same text with a longer inner blank, and
\* one text for each of the other rules of validateTaskText
RawTexts ==
    { <<>>,
      <<" ", " ">>,
      <<"a", " ", "b">>,
      <<" ", "a", " ", "b", " ">>,
      <<"a", " ", " ", "b">>,
      <<"a", "^">>,
      <<"O", "n", "C", "l", "i", "c", "k">>,
      <<"a", " ", "\t", " ", "b">>,
      <<"a", "a", "a", "a", "a">>,
      LongText }

\* entries a tasks array in the slot is made of at startup, all written before
\* this session (createdAt 0): a task whose text differs from a valid input by
\* case only, a completed task with the same id whose text is empty, and an
\* entry whose id is a string
StoredEntries ==
    { [isObject |-> TRUE, idIsNumber |-> TRUE, textIsString |-> TRUE,
       completedIsBoolean |-> TRUE, id |-> 2, text |-> <<"A", " ", "B">>,
       completed |-> FALSE, createdAt |-> 0],
      [isObject |-> TRUE, idIsNumber |-> TRUE, textIsString |-> TRUE,
       completedIsBoolean |-> TRUE, id |-> 2, text |-> <<>>,
       completed |-> TRUE, createdAt |-> 0],
      [isObject |-> TRUE, idIsNumber |-> FALSE, textIsString |-> TRUE,
       completedIsBoolean |-> TRUE, id |-> 4, text |-> <<"A">>,
       completed |-> FALSE, createdAt |-> 0] }

SeqsUpTo(S, n) == UNION {[1..k -> S] : k \in 0..n}

\* what the slot can hold when the page is opened
StoredPayloads ==
    { [kind |-> k, tasks |-> <<>>] :
          k \in {"absent", "emptyString", "corrupt", "notObject", "noTasksArray"} }
    \cup { [kind |-> "envelope", tasks |-> es] : es \in SeqsUpTo(StoredEntries, MaxStored) }

\* ids a caller passes to removeTask and toggleTaskCompletion; no task has id 0
TaskIds == 0..(MaxNow * RandRes + RandRes)

Filters == {"all", "active", "completed"}

-----------------------------------------------------------------------------
(* State *)

VARIABLES
    phase,          \* "loading" before the constructor ran, then "ready" or "failed"
    tasks,          \* this.tasks
    currentFilter,  \* this.currentFilter
    isInitialized,  \* this.isInitialized
    slot,           \* localStorage[STORAGE_KEY]
    confirmation,   \* the #custom-confirmation overlay and its two callbacks; bypassed
                    \* tells that removeTask was called while it was open
    now,            \* the latest reading of Date.now()
    refused,        \* the latest saveTasks calls that returned false, in a row
    last            \* the latest call: operation, return taken, message shown

vars == <<phase, tasks, currentFilter, isInitialized, slot, confirmation, now,
          refused, last>>

NoConfirmation == [kind |-> "none", id |-> 0, count |-> 0, bypassed |-> FALSE]

\* the record of a call. ret is the value the call returns; id is the task id
\* the call found; wrote tells that saveTasks was called and saved that it
\* returned true; severity and count are the type and the number in the
\* message of the call's showValidationMessage, if it made one; rep counts the
\* successive toggles of one id, up to two, and orig is the completed value
\* that task had before the first of them
Call(op, branch, ret, id, wrote, saved) ==
    [op |-> op, branch |-> branch, ret |-> ret, id |-> id, wrote |-> wrote,
     saved |-> saved, severity |-> "", count |-> 0, rep |-> 0, orig |-> FALSE]

Shows(call, severity, count) ==
    [call EXCEPT !.severity = severity, !.count = count]

Init ==
    /\ phase = "loading"
    /\ tasks = <<>>
    /\ currentFilter = "all"
    /\ isInitialized = FALSE
    /\ slot \in StoredPayloads
    /\ confirmation = NoConfirmation
    /\ now = 1
    /\ refused = 0
    /\ last = Call("none", "", "undefined", 0, FALSE, FALSE)

-----------------------------------------------------------------------------
(* Operations *)

\* new TaskFlowApp(): the constructor and init()
Initialize ==
    /\ phase = "loading"
    /\ \E available \in BOOLEAN :
         IF available
         THEN LET loaded == loadTasks(slot)
              IN  /\ tasks' = loaded.tasks
                  /\ slot' = loaded.slot
                  /\ isInitialized' = TRUE
                  /\ phase' = "ready"
                  /\ last' = Call("init", "initialized", "undefined", 0, FALSE, FALSE)
         ELSE \* the catch block calls this.showError, which the class does not
              \* define: the promise of init() is rejected with a TypeError
              /\ phase' = "failed"
              /\ last' = Call("init", "storageUnavailable", "TypeError", 0, FALSE, FALSE)
              /\ UNCHANGED <<tasks, slot, isInitialized>>
    /\ UNCHANGED <<currentFilter, confirmation, now, refused>>

\* a save that runs before the mutation and writes the collection as it was
PersistBeforeMutation(ts, call) ==
    \E outcome \in WriteOutcomes :
        LET written == saveTasks(tasks, slot, outcome)
        IN  /\ written.success \/ refused < MaxRefused
            /\ slot' = written.slot
            /\ refused' = IF written.success THEN 0 ELSE refused + 1
            /\ last' = [call EXCEPT !.wrote = TRUE, !.saved = written.success]

\* a save that stores the active filter with the collection
PersistWithFilter(ts, call) ==
    \E outcome \in WriteOutcomes :
        LET written == saveTasks(ts, slot, outcome)
        IN  /\ written.success \/ refused < MaxRefused
            /\ slot' = IF written.success
                       THEN [kind |-> "envelope", tasks |-> written.slot.tasks,
                             currentFilter |-> currentFilter]
                       ELSE written.slot
            /\ refused' = IF written.success THEN 0 ELSE refused + 1
            /\ last' = [call EXCEPT !.wrote = TRUE, !.saved = written.success]

\* TaskFlowApp.saveTasks after a mutation: the write localStorage takes or
\* refuses, and the call's record
Persist(ts, call) ==
    \E outcome \in WriteOutcomes :
        LET written == saveTasks(ts, slot, outcome)
        IN  /\ written.success \/ refused < MaxRefused
            /\ slot' = written.slot
            /\ refused' = IF written.success THEN 0 ELSE refused + 1
            /\ last' = [call EXCEPT !.wrote = TRUE, !.saved = written.success]

\* addTask(text), as handleFormSubmit calls it
AddTask(text) ==
    /\ phase = "ready"
    /\ Len(tasks) < MaxTasks
    /\ LET probe == addTaskResult(text, tasks, now, 0)
       IN  IF probe.branch = "added"
           THEN \E t \in now..MaxNow, r \in 0..(RandRes - 1) :
                  LET res == addTaskResult(text, tasks, t, r)
                  IN  /\ tasks' = res.tasks
                      /\ now' = t
                      /\ Persist(res.tasks,
                                 Shows(Call("addTask", "added", "true", res.tasks[1].id,
                                            TRUE, FALSE),
                                       res.severity, 0))
           ELSE /\ last' = Shows(Call("addTask", probe.branch, "false", 0, FALSE, FALSE),
                                 probe.severity, 0)
                /\ UNCHANGED <<tasks, slot, now, refused>>
    /\ UNCHANGED <<phase, currentFilter, isInitialized, confirmation>>

\* the body of removeTask(taskId), also run by an accepted delete confirmation
RemoveEffect(op, taskId) ==
    IF findIndex(tasks, taskId) # 0
    THEN /\ tasks' = removeTaskResult(tasks, taskId)
         /\ Persist(removeTaskResult(tasks, taskId),
                    Call(op, "removed", "undefined", taskId, TRUE, FALSE))
    ELSE /\ last' = Call(op, "notFound", "undefined", 0, FALSE, FALSE)
         /\ UNCHANGED <<tasks, slot, refused>>

\* removeTask(taskId), called without the confirmation
RemoveTask(taskId) ==
    /\ phase = "ready"
    /\ RemoveEffect("removeTask", taskId)
    /\ confirmation' = IF confirmation.kind # "none" /\ findIndex(tasks, taskId) # 0
                       THEN [confirmation EXCEPT !.bypassed = TRUE]
                       ELSE confirmation
    /\ UNCHANGED <<phase, currentFilter, isInitialized, now>>

\* toggleTaskCompletion(taskId), as a click on a task's checkbox calls it
ToggleTaskCompletion(taskId) ==
    /\ phase = "ready"
    /\ IF findIndex(tasks, taskId) # 0
       THEN LET again == /\ last.op = "toggleTaskCompletion"
                         /\ last.branch = "toggled"
                         /\ last.id = taskId
                         /\ last.rep = 1
            IN  /\ tasks' = toggleTaskResult(tasks, taskId)
                /\ Persist(toggleTaskResult(tasks, taskId),
                           [Call("toggleTaskCompletion", "toggled", "undefined",
                                 taskId, TRUE, FALSE)
                            EXCEPT !.rep = IF again THEN 2 ELSE 1,
                                   !.orig = IF again THEN last.orig
                                            ELSE tasks[findIndex(tasks, taskId)].completed])
       ELSE /\ last' = Call("toggleTaskCompletion", "notFound", "undefined", 0,
                            FALSE, FALSE)
            /\ UNCHANGED <<tasks, slot, refused>>
    /\ UNCHANGED <<phase, currentFilter, isInitialized, confirmation, now>>

\* clearCompletedTasks(), as handleClearCompleted calls it: the count is taken
\* here and kept by the confirmation's accept callback
ClearCompletedTasks ==
    /\ phase = "ready"
    /\ IF completedCount(tasks) = 0
       THEN /\ last' = Shows(Call("clearCompletedTasks", "nothingToClear", "undefined",
                                  0, FALSE, FALSE),
                             "warning", 0)
            /\ UNCHANGED confirmation
       ELSE /\ confirmation' = [kind |-> "clear", id |-> 0,
                                count |-> completedCount(tasks), bypassed |-> FALSE]
            /\ last' = Call("clearCompletedTasks", "asked", "undefined", 0, FALSE, FALSE)
    /\ UNCHANGED <<phase, tasks, currentFilter, isInitialized, slot, now, refused>>

\* a delete click that removes the task at once, without asking
DeleteWithoutConfirmation(taskId) ==
    /\ phase = "ready"
    /\ findIndex(filterTasks(tasks, currentFilter), taskId) # 0
    /\ RemoveEffect("deleteClick", taskId)
    /\ UNCHANGED <<phase, currentFilter, isInitialized, confirmation, now>>

\* handleTaskListClick on the delete button of a task that the list shows
DeleteClick(taskId) ==
    /\ phase = "ready"
    /\ findIndex(filterTasks(tasks, currentFilter), taskId) # 0
    /\ confirmation' = [kind |-> "delete", id |-> taskId, count |-> 0,
                        bypassed |-> FALSE]
    /\ last' = Call("deleteClick", "asked", "undefined", 0, FALSE, FALSE)
    /\ UNCHANGED <<phase, tasks, currentFilter, isInitialized, slot, now, refused>>

\* btnAccept.onclick, also reached by the Enter key
ConfirmAccept ==
    /\ phase = "ready"
    /\ confirmation.kind # "none"
    /\ confirmation' = NoConfirmation
    /\ IF confirmation.kind = "delete"
       THEN RemoveEffect("accept", confirmation.id)
       ELSE /\ tasks' = clearCompletedResult(tasks)
            /\ Persist(clearCompletedResult(tasks),
                       Shows(Call("accept", "cleared", "undefined", 0, TRUE, FALSE),
                             "success", confirmation.count))
    /\ UNCHANGED <<phase, currentFilter, isInitialized, now>>

\* btnCancel.onclick, also reached by the Escape key
ConfirmCancel ==
    /\ phase = "ready"
    /\ confirmation.kind # "none"
    /\ confirmation' = NoConfirmation
    /\ last' = Call("cancel", confirmation.kind, "undefined", 0, FALSE, FALSE)
    /\ UNCHANGED <<phase, tasks, currentFilter, isInitialized, slot, now, refused>>

Next ==
    \/ Initialize
    \/ \E text \in RawTexts : AddTask(text)
    \/ \E taskId \in TaskIds : RemoveTask(taskId)
    \/ \E taskId \in TaskIds : ToggleTaskCompletion(taskId)
    \/ ClearCompletedTasks
    \/ \E taskId \in TaskIds : DeleteClick(taskId)
    \/ ConfirmAccept
    \/ ConfirmCancel

Spec == Init /\ [][Next]_vars

-----------------------------------------------------------------------------
(* The storage gateway and the projection, called on their own *)

\* tasks a caller hands to saveTasks and filterTasks: an active and a completed
\* task with distinct ids, a completed task with the id of the first, and a
\* task whose id is not a finite number
SampleTasks ==
    { [id |-> 1, text |-> <<"a">>, completed |-> FALSE, createdAt |-> 1],
      [id |-> 2, text |-> <<"b">>, completed |-> TRUE, createdAt |-> 2],
      [id |-> 1, text |-> <<"c">>, completed |-> TRUE, createdAt |-> 2],
      [id |-> NotANumber, text |-> <<"d">>, completed |-> FALSE, createdAt |-> 2] }

\* entries of a stored tasks array that the filter of loadTasks drops: null or
\* a number, an object whose text is not a string, an object whose completed
\* is not a boolean
MalformedEntries ==
    { [isObject |-> FALSE, idIsNumber |-> FALSE, textIsString |-> FALSE,
       completedIsBoolean |-> FALSE, id |-> 0, text |-> <<>>,
       completed |-> FALSE, createdAt |-> 0],
      [isObject |-> TRUE, idIsNumber |-> TRUE, textIsString |-> FALSE,
       completedIsBoolean |-> TRUE, id |-> 3, text |-> <<>>,
       completed |-> FALSE, createdAt |-> 0],
      [isObject |-> TRUE, idIsNumber |-> TRUE, textIsString |-> TRUE,
       completedIsBoolean |-> FALSE, id |-> 3, text |-> <<"A">>,
       completed |-> FALSE, createdAt |-> 0] }

\* what the slot can hold when loadTasks is called
GatewayPayloads ==
    { [kind |-> k, tasks |-> <<>>] :
          k \in {"absent", "emptyString", "corrupt", "notObject", "noTasksArray"} }
    \cup { [kind |-> "envelope", tasks |-> es] :
              es \in SeqsUpTo(StoredEntries \cup MalformedEntries, MaxStored) }

\* the record of a gateway call: the function called, what localStorage did
\* to its writes, the status or the array it returned, the slot before the
\* call, whether the call came right after a saveTasks that returned true,
\* whether localStorage.clear() ran, the number of setItem calls, and whether
\* the keys that other code keeps in localStorage are still there
GatewayCall(op, outcome, success, returned, before, afterSave, cleared, writes, others) ==
    [op |-> op, outcome |-> outcome, success |-> success, returned |-> returned,
     before |-> before, afterSave |-> afterSave, cleared |-> cleared,
     writes |-> writes, others |-> others]

GatewayInit ==
    /\ phase = "gateway"
    /\ tasks \in SeqsUpTo(SampleTasks, MaxStored)
    /\ currentFilter \in Filters
    /\ isInitialized = FALSE
    /\ slot \in GatewayPayloads
    /\ confirmation = NoConfirmation
    /\ now = 1
    /\ refused = 0
    /\ last = GatewayCall("none", "", FALSE, <<>>, Absent, FALSE, FALSE, 0, TRUE)

\* saveTasks(tasks) of the storage module
SaveTasks ==
    \E outcome \in WriteOutcomes :
        LET written == saveTasks(tasks, slot, outcome)
        IN  /\ slot' = written.slot
            /\ last' = GatewayCall("saveTasks", outcome, written.success, <<>>, slot,
                                   FALSE, written.cleared, written.writes,
                                   last.others /\ ~written.cleared)
            /\ UNCHANGED <<phase, tasks, currentFilter, isInitialized, confirmation,
                           now, refused>>

\* loadTasks() of the storage module
LoadTasks ==
    LET loaded == loadTasks(slot)
    IN  /\ slot' = loaded.slot
        /\ last' = GatewayCall("loadTasks", "", TRUE, loaded.tasks, slot,
                               last.op = "saveTasks" /\ last.success, FALSE, 0,
                               last.others)
        /\ UNCHANGED <<phase, tasks, currentFilter, isInitialized, confirmation,
                       now, refused>>

\* filterTasks(tasks, filter) of the render module
FilterTasks ==
    \E filter \in Filters :
        /\ currentFilter' = filter
        /\ last' = GatewayCall("filterTasks", "", TRUE, filterTasks(tasks, filter), slot,
                               FALSE, FALSE, 0, last.others)
        /\ UNCHANGED <<phase, tasks, isInitialized, slot, confirmation, now, refused>>

GatewayNext ==
    \/ SaveTasks
    \/ LoadTasks
    \/ FilterTasks

GatewaySpec == GatewayInit /\ [][GatewayNext]_vars

-----------------------------------------------------------------------------
(* The page: the handlers of the controls, the filter buttons and the unload *)

\* the texts the form is submitted with: the empty text, a valid text and a
\* text with a character outside ALLOWED_CHARS
ViewTexts ==
    { <<>>,
      <<"a", " ", "b">>,
      <<"a", "^">> }

\* what the slot holds when the page is opened: nothing, or an envelope of
\* two entries that loadTasks keeps
ViewPayloads ==
    { p \in StoredPayloads :
          \/ p.kind = "absent"
          \/ /\ p.kind = "envelope"
             /\ Len(p.tasks) = MaxStored
             /\ \A i \in DOMAIN p.tasks : p.tasks[i].idIsNumber
             /\ \A i, j \in DOMAIN p.tasks : i # j => p.tasks[i] # p.tasks[j] }

\* the record of the unload of the page: the number of TaskFlowApp.saveTasks
\* calls the beforeunload listeners made, whether the last of them was taken,
\* whether a listener threw, and the type of the message shown, if any
TeardownCall(branch, writes, saved) ==
    [op |-> "teardown", branch |-> branch, ret |-> "undefined", writes |-> writes,
     saved |-> saved, severity |-> ""]

ViewInit ==
    /\ phase = "loading"
    /\ tasks = <<>>
    /\ currentFilter = "all"
    /\ isInitialized = FALSE
    /\ slot \in ViewPayloads
    /\ confirmation = NoConfirmation
    /\ now = 1
    /\ refused = 0
    /\ last = Call("none", "", "undefined", 0, FALSE, FALSE)

\* a filter click that also writes the collection back
FilterClickSaves(filter) ==
    /\ phase = "ready"
    /\ currentFilter' = filter
    /\ Persist(tasks, Call("filterClick", "changed", "undefined", 0, TRUE, FALSE))
    /\ UNCHANGED <<phase, tasks, isInitialized, confirmation, now>>

\* handleFilterClick on the button whose data-filter is filter
FilterClick(filter) ==
    /\ phase = "ready"
    /\ IF filter # currentFilter
       THEN /\ currentFilter' = filter
            /\ last' = Call("filterClick", "changed", "undefined", 0, FALSE, FALSE)
       ELSE /\ last' = Call("filterClick", "same", "undefined", 0, FALSE, FALSE)
            /\ UNCHANGED currentFilter
    /\ UNCHANGED <<phase, tasks, isInitialized, slot, confirmation, now, refused>>

\* handleTaskListClick on the delete button of a list item whose data-id is
\* the id of no task: this.tasks.find returns undefined and reading task.text
\* throws a TypeError out of the listener, before showConfirmation is called
StaleDeleteClick(taskId) ==
    /\ phase = "ready"
    /\ findIndex(tasks, taskId) = 0
    /\ last' = Call("deleteClick", "notFound", "TypeError", 0, FALSE, FALSE)
    /\ UNCHANGED <<phase, tasks, currentFilter, isInitialized, slot, confirmation,
                   now, refused>>

\* an unload that writes once, from destroy() only
TeardownWritesOnce ==
    /\ phase \in {"ready", "failed"}
    /\ \E first \in WriteOutcomes :
         LET destroyed == saveTasks(tasks, slot, first)
         IN  /\ slot' = destroyed.slot
             /\ last' = TeardownCall(IF phase = "ready" THEN "initialized"
                                     ELSE "notInitialized",
                                     1, destroyed.success)
    /\ phase' = "closed"
    /\ UNCHANGED <<tasks, currentFilter, isInitialized, confirmation, now, refused>>

\* beforeunload: the listener of the module runs first and calls destroy(),
\* which calls this.saveTasks(); the listener that setupEventListeners added,
\* if init() came that far, then calls this.saveTasks() again. Both calls
\* catch what the gateway throws and show nothing
Teardown ==
    /\ phase \in {"ready", "failed"}
    /\ \E first \in WriteOutcomes, second \in WriteOutcomes :
         LET destroyed == saveTasks(tasks, slot, first)
             listened  == saveTasks(tasks, destroyed.slot, second)
         IN  IF phase = "ready"
             THEN /\ slot' = listened.slot
                  /\ last' = TeardownCall("initialized", 2, listened.success)
             ELSE /\ second = first
                  /\ slot' = destroyed.slot
                  /\ last' = TeardownCall("notInitialized", 1, destroyed.success)
    /\ phase' = "closed"
    /\ UNCHANGED <<tasks, currentFilter, isInitialized, confirmation, now, refused>>

ViewNext ==
    \/ Initialize
    \/ \E text \in ViewTexts : AddTask(text)
    \/ \E taskId \in TaskIds : ToggleTaskCompletion(taskId)
    \/ \E taskId \in TaskIds : DeleteClick(taskId)
    \/ \E taskId \in TaskIds : StaleDeleteClick(taskId)
    \/ \E filter \in Filters : FilterClick(filter)
    \/ ClearCompletedTasks
    \/ ConfirmAccept
    \/ ConfirmCancel
    \/ Teardown

ViewSpec == ViewInit /\ [][ViewNext]_vars

-----------------------------------------------------------------------------
(* The confirmation dialog of the page, called on its own *)

\* the number of showConfirmation calls of a run
MaxRequests == 3

\* the two call sites of showConfirmation: the delete click and the clear
PromptKinds == {"delete", "clear"}

\* what is known of a request: whether it was made and from which call site,
\* the button whose onclick ran for it, and how many times each of its two
\* continuations was invoked
NoRequest == [kind |-> "none", answered |-> "none", accepted |-> 0, cancelled |-> 0]

\* the record of a dialog call: the listener that ran, the request it ran
\* for, and the requests so far
DialogCall(op, req, calls) == [op |-> op, req |-> req, calls |-> calls]

\* a showConfirmation that leaves an existing overlay in the document
showConfirmationKeepsExisting(overlays, req) == Append(overlays, req)

\* showConfirmation: the document's elements with id custom-confirmation
\* afterwards. getElementById returns the first of them, which is removed,
\* and the new overlay is appended to the body
showConfirmation(overlays, req) ==
    Append(IF overlays # <<>> THEN Tail(overlays) ELSE overlays, req)

\* overlay.remove()
removeOverlay(overlays, req) == SelectSeq(overlays, LAMBDA o : o # req)

\* a button handler that does not remove its overlay
onclickKeepsOverlay(overlays, calls, req, button) ==
    [overlays |-> overlays,
     calls |-> [calls EXCEPT ![req].answered = button,
                             ![req].accepted = @ + (IF button = "accept" THEN 1 ELSE 0),
                             ![req].cancelled = @ + (IF button = "cancel" THEN 1 ELSE 0)]]

\* btnAccept.onclick and btnCancel.onclick of the overlay of request req:
\* the overlay is removed and the continuation of the button, a function at
\* both call sites, is called
onclick(overlays, calls, req, button) ==
    [overlays |-> removeOverlay(overlays, req),
     calls |-> [calls EXCEPT ![req].answered = button,
                             ![req].accepted = @ + (IF button = "accept" THEN 1 ELSE 0),
                             ![req].cancelled = @ + (IF button = "cancel" THEN 1 ELSE 0)]]

DialogInit ==
    /\ phase = "dialog"
    /\ tasks = <<>>
    /\ currentFilter = "all"
    /\ isInitialized = FALSE
    /\ slot = Absent
    /\ confirmation = <<>>
    /\ now = 0
    /\ refused = 0
    /\ last = DialogCall("none", 0, [r \in 1..MaxRequests |-> NoRequest])

\* showConfirmation(message, onAccept, onCancel) from one of the call sites
ShowConfirmation ==
    /\ now < MaxRequests
    /\ \E kind \in PromptKinds :
         /\ now' = now + 1
         /\ confirmation' = showConfirmation(confirmation, now + 1)
         /\ last' = DialogCall("showConfirmation", now + 1,
                               [last.calls EXCEPT ![now + 1].kind = kind])
    /\ UNCHANGED <<phase, tasks, currentFilter, isInitialized, slot, refused>>

\* the effect of a button's onclick on the document and on the continuations
Dismiss(op, req, button) ==
    LET clicked == onclick(confirmation, last.calls, req, button)
    IN  /\ confirmation' = clicked.overlays
        /\ last' = DialogCall(op, req, clicked.calls)
        /\ UNCHANGED <<phase, tasks, currentFilter, isInitialized, slot, now, refused>>

\* a click that reaches the Accept button of any request made so far, in the
\* document or not
ClickAcceptAnyRequest ==
    \E req \in 1..now : Dismiss("clickAccept", req, "accept")

\* a click on the Accept button of an overlay of the document
ClickAccept ==
    \E i \in DOMAIN confirmation : Dismiss("clickAccept", confirmation[i], "accept")

\* a click on the Cancel button of an overlay of the document
ClickCancel ==
    \E i \in DOMAIN confirmation : Dismiss("clickCancel", confirmation[i], "cancel")

\* keyHandler on a keydown of Enter inside an overlay: btnAccept.click()
KeyEnter ==
    \E i \in DOMAIN confirmation : Dismiss("keyEnter", confirmation[i], "accept")

\* keyHandler on a keydown of Escape inside an overlay: btnCancel.click()
KeyEscape ==
    \E i \in DOMAIN confirmation : Dismiss("keyEscape", confirmation[i], "cancel")

\* keyHandler on a keydown of any other key: nothing
KeyOther ==
    /\ confirmation # <<>>
    /\ last' = DialogCall("keyOther", confirmation[1], last.calls)
    /\ UNCHANGED <<phase, tasks, currentFilter, isInitialized, slot, confirmation,
                   now, refused>>

DialogNext ==
    \/ ShowConfirmation
    \/ ClickAccept
    \/ ClickCancel
    \/ KeyEnter
    \/ KeyEscape
    \/ KeyOther

DialogSpec == DialogInit /\ [][DialogNext]_vars

-----------------------------------------------------------------------------
(* The validator, called on its own *)

\* the length of the short texts
MaxTextLen == 4

\* the characters of the short texts: a letter, a blank and a character
\* outside ALLOWED_CHARS
TextAlphabet == {"a", " ", "^"}

\* a text of MAX_LENGTH characters
MaxText == SubSeq(LongText, 1, MAX_LENGTH)

\* the texts validateTaskText is called with: every short text over the
\* alphabet, the submitted texts, a text of the greatest length alone and
\* with outer blanks, and texts that break two rules at once (length and
\* characters, characters and words, characters and whitespace, words and
\* whitespace, words and repetition, whitespace and repetition)
ValidatorTexts ==
    SeqsUpTo(TextAlphabet, MaxTextLen)
    \cup RawTexts
    \cup { MaxText,
           <<" ">> \o MaxText \o <<"\t">>,
           <<"^">> \o LongText,
           <<"^", "s", "c", "r", "i", "p", "t">>,
           <<"^", " ", " ", " ", "a">>,
           <<"S", "c", "r", "i", "p", "t", " ", " ", " ", "a">>,
           <<"s", "c", "r", "i", "p", "t", "t", "t", "t", "t">>,
           <<"a", " ", " ", " ", " ", " ", "b">>,
           <<"a", "\n", "\n", "\n", "\n", "\n", "b">> }

\* the record of a validator call: the text it was called with, the result
\* record, and for a call on the sanitizedText of an earlier call, that call's
\* text
ValidatorCall(op, text, result, raw) ==
    [op |-> op, text |-> text, result |-> result, raw |-> raw]

ValidatorInit ==
    /\ phase = "validator"
    /\ tasks = <<>>
    /\ currentFilter = "all"
    /\ isInitialized = FALSE
    /\ slot = Absent
    /\ confirmation = NoConfirmation
    /\ now = 1
    /\ refused = 0
    /\ \E text \in ValidatorTexts :
         last = ValidatorCall("none", text,
                              [isValid |-> FALSE, message |-> "", sanitizedText |-> <<>>],
                              <<>>)

\* validateTaskText(text) on the text drawn
ValidateTaskText ==
    /\ last.op = "none"
    /\ last' = ValidatorCall("validateTaskText", last.text, validateTaskText(last.text),
                             <<>>)
    /\ UNCHANGED <<phase, tasks, currentFilter, isInitialized, slot, confirmation,
                   now, refused>>

\* validateTaskText(sanitizedText) on the text an accepting call returned
ValidateSanitized ==
    /\ last.op = "validateTaskText"
    /\ last.result.isValid
    /\ last' = ValidatorCall("validateSanitized", last.result.sanitizedText,
                             validateTaskText(last.result.sanitizedText), last.text)
    /\ UNCHANGED <<phase, tasks, currentFilter, isInitialized, slot, confirmation,
                   now, refused>>

ValidatorNext ==
    \/ ValidateTaskText
    \/ ValidateSanitized

ValidatorSpec == ValidatorInit /\ [][ValidatorNext]_vars

-----------------------------------------------------------------------------
(* The import of an exported document, called on its own *)

\* the elements of the tasks array of a document handed to importTasks. id
\* is absent, a positive number, a negative number or a string of digits;
\* completed is absent, a boolean or a non-empty string; createdAt is absent
\* or a string. The elements: a task as exportTasks wrote it, an object with
\* a padded text and nothing else, a task whose id is a string, a task whose
\* id is negative and whose completed is the string "false", an object whose
\* text is blank, an object whose text is a number, and null
ImportEntries ==
    { [isObject |-> TRUE, textIsString |-> TRUE, text |-> <<"a">>,
       idKind |-> "positive", id |-> 1, completedKind |-> "true",
       createdAtKind |-> "string"],
      [isObject |-> TRUE, textIsString |-> TRUE, text |-> <<" ", "b", " ">>,
       idKind |-> "absent", id |-> 0, completedKind |-> "absent",
       createdAtKind |-> "absent"],
      [isObject |-> TRUE, textIsString |-> TRUE, text |-> <<"c">>,
       idKind |-> "string", id |-> 7, completedKind |-> "false",
       createdAtKind |-> "string"],
      [isObject |-> TRUE, textIsString |-> TRUE, text |-> <<"d">>,
       idKind |-> "negative", id |-> -1, completedKind |-> "string",
       createdAtKind |-> "absent"],
      [isObject |-> TRUE, textIsString |-> TRUE, text |-> <<" ", "\t">>,
       idKind |-> "positive", id |-> 2, completedKind |-> "false",
       createdAtKind |-> "string"],
      [isObject |-> TRUE, textIsString |-> FALSE, text |-> <<>>,
       idKind |-> "positive", id |-> 3, completedKind |-> "false",
       createdAtKind |-> "string"],
      [isObject |-> FALSE, textIsString |-> FALSE, text |-> <<>>,
       idKind |-> "absent", id |-> 0, completedKind |-> "absent",
       createdAtKind |-> "absent"] }

\* the strings handed to importTasks: one that JSON.parse refuses, the
\* document null, an object without tasks, an object whose tasks is not an
\* array, and the objects with a tasks array
ImportDocuments ==
    { [kind |-> k, tasks |-> <<>>] :
          k \in {"notJSON", "null", "noTasks", "tasksNotArray"} }
    \cup { [kind |-> "document", tasks |-> es] : es \in SeqsUpTo(ImportEntries, MaxStored) }

\* the callback of importedData.tasks.filter
Importable(entry) ==
    /\ entry.isObject
    /\ entry.textIsString
    /\ Len(Trim(entry.text)) > 0

\* the callback of map: task.id || Date.now() + Math.random() keeps every id
\* that is not absent, Boolean(task.completed) is true for true and for a
\* non-empty string, and task.createdAt || new Date().toISOString() keeps
\* every createdAt that is not absent; t is the reading of Date.now()
importedTask(entry, t) ==
    [idKind |-> IF entry.idKind = "absent" THEN "positive" ELSE entry.idKind,
     id |-> IF entry.idKind = "absent" THEN t * RandRes ELSE entry.id,
     text |-> Trim(entry.text),
     completed |-> entry.completedKind \in {"true", "string"},
     createdAtKind |-> IF entry.createdAtKind = "absent" THEN "string"
                       ELSE entry.createdAtKind]

\* importTasks(jsonString): whether it throws 'Import failed: ...' and the
\* array it returns otherwise
importTasks(doc, t) ==
    IF doc.kind # "document"
    THEN [thrown |-> TRUE, tasks |-> <<>>]
    ELSE LET kept == SelectSeq(doc.tasks, Importable)
         IN  [thrown |-> FALSE,
              tasks |-> [i \in DOMAIN kept |-> importedTask(kept[i], t)]]

\* the record of an importTasks call: the document and what came back
ImportCall(op, doc, thrown, returned) ==
    [op |-> op, doc |-> doc, thrown |-> thrown, returned |-> returned]

ImportInit ==
    /\ phase = "import"
    /\ tasks = <<>>
    /\ currentFilter = "all"
    /\ isInitialized = FALSE
    /\ slot = Absent
    /\ confirmation = NoConfirmation
    /\ now = 1
    /\ refused = 0
    /\ \E doc \in ImportDocuments : last = ImportCall("none", doc, FALSE, <<>>)

\* importTasks(jsonString) on the document drawn
ImportTasks ==
    /\ last.op = "none"
    /\ \E t \in now..MaxNow :
         LET imported == importTasks(last.doc, t)
         IN  /\ now' = t
             /\ last' = ImportCall("importTasks", last.doc, imported.thrown,
                                   imported.tasks)
    /\ UNCHANGED <<phase, tasks, currentFilter, isInitialized, slot, confirmation,
                   refused>>

ImportNext == ImportTasks

ImportSpec == ImportInit /\ [][ImportNext]_vars

-----------------------------------------------------------------------------
(* The store driven from an empty slot with the texts of the scenario *)

BuyMilk == <<"B", "u", "y", " ", "m", "i", "l", "k">>

BlankText == <<" ", " ">>

\* the texts submitted: the text of the scenario, a blank text and another
\* valid text
ScenarioTexts == {BuyMilk, BlankText, <<"T", "e", "a">>}

ScenarioInit ==
    /\ phase = "loading"
    /\ tasks = <<>>
    /\ currentFilter = "all"
    /\ isInitialized = FALSE
    /\ slot = Absent
    /\ confirmation = NoConfirmation
    /\ now = 1
    /\ refused = 0
    /\ last = Call("none", "", "undefined", 0, FALSE, FALSE)

ScenarioNext ==
    \/ Initialize
    \/ \E text \in ScenarioTexts : AddTask(text)
    \/ \E taskId \in TaskIds : ToggleTaskCompletion(taskId)
    \/ ClearCompletedTasks
    \/ ConfirmAccept
    \/ ConfirmCancel

ScenarioSpec == ScenarioInit /\ [][ScenarioNext]_vars

-----------------------------------------------------------------------------
(* The page with what render() leaves in the document *)

\* the part of the document that renderTaskList writes: the display style of
\* #task-list (the empty string until a script sets it), the hidden attribute
\* of #empty-state, the filter its texts were last set for, and the list
\* items, each with the data-id, the text and the checked state it shows
View(listDisplay, emptyStateHidden, emptyStateFor, items) ==
    [listDisplay |-> listDisplay, emptyStateHidden |-> emptyStateHidden,
     emptyStateFor |-> emptyStateFor, items |-> items]

\* the document as index.html delivers it
InitialView == View("", TRUE, "all", <<>>)

\* createTaskElement(task): what the list item shows; the text goes through
\* escapeHTML into innerHTML and is displayed as it was
createTaskElement(task) ==
    [id |-> task.id, text |-> task.text, checked |-> task.completed]

\* renderTaskList(taskListElement, tasks, filter) with showEmptyState: the
\* list is emptied; when nothing passes the filter the empty state is shown
\* and the list's display is set to none; otherwise the items are appended
\* and neither the display of the list nor the empty state is touched
renderTaskList(view, ts, filter) ==
    LET filteredTasks == filterTasks(ts, filter)
    IN  IF Len(filteredTasks) = 0
        THEN View("none", FALSE, filter, <<>>)
        ELSE View(view.listDisplay, view.emptyStateHidden, view.emptyStateFor,
                  [i \in DOMAIN filteredTasks |-> createTaskElement(filteredTasks[i])])

\* the record of a handler that may call render(): the handler, its branch,
\* the document afterwards, whether saveTasks was called and what it returned
RenderCall(op, branch, view) ==
    [op |-> op, branch |-> branch, view |-> view, wrote |-> FALSE, saved |-> FALSE]

RenderInit ==
    /\ phase = "loading"
    /\ tasks = <<>>
    /\ currentFilter = "all"
    /\ isInitialized = FALSE
    /\ slot \in ViewPayloads
    /\ confirmation = NoConfirmation
    /\ now = 1
    /\ refused = 0
    /\ last = RenderCall("none", "", InitialView)

\* new TaskFlowApp(): init() loads the collection and calls render(), unless
\* isStorageAvailable() is false and it throws before
RenderAtInit ==
    /\ phase = "loading"
    /\ \E available \in BOOLEAN :
         IF available
         THEN LET loaded == loadTasks(slot)
              IN  /\ tasks' = loaded.tasks
                  /\ slot' = loaded.slot
                  /\ isInitialized' = TRUE
                  /\ phase' = "ready"
                  /\ last' = RenderCall("init", "initialized",
                                        renderTaskList(last.view, loaded.tasks,
                                                       currentFilter))
         ELSE /\ phase' = "failed"
              /\ last' = RenderCall("init", "storageUnavailable", last.view)
              /\ UNCHANGED <<tasks, slot, isInitialized>>
    /\ UNCHANGED <<currentFilter, confirmation, now, refused>>

\* handleFormSubmit: addTask(text) with its saveTasks() and render()
RenderAfterAdd(text) ==
    /\ phase = "ready"
    /\ Len(tasks) < MaxTasks
    /\ LET probe == addTaskResult(text, tasks, now, 0)
       IN  IF probe.branch = "added"
           THEN \E t \in now..MaxNow, r \in 0..(RandRes - 1) :
                  LET res == addTaskResult(text, tasks, t, r)
                  IN  /\ tasks' = res.tasks
                      /\ now' = t
                      /\ Persist(res.tasks,
                                 RenderCall("addTask", "added",
                                            renderTaskList(last.view, res.tasks,
                                                           currentFilter)))
           ELSE /\ last' = RenderCall("addTask", probe.branch, last.view)
                /\ UNCHANGED <<tasks, slot, now, refused>>
    /\ UNCHANGED <<phase, currentFilter, isInitialized, confirmation>>

\* a click on the checkbox of an item of the displayed list:
\* toggleTaskCompletion(taskId) with its saveTasks() and render()
RenderAfterToggle(taskId) ==
    /\ phase = "ready"
    /\ last.view.listDisplay # "none"
    /\ \E i \in DOMAIN last.view.items : last.view.items[i].id = taskId
    /\ IF findIndex(tasks, taskId) # 0
       THEN /\ tasks' = toggleTaskResult(tasks, taskId)
            /\ Persist(toggleTaskResult(tasks, taskId),
                       RenderCall("toggleTaskCompletion", "toggled",
                                  renderTaskList(last.view,
                                                 toggleTaskResult(tasks, taskId),
                                                 currentFilter)))
       ELSE /\ last' = RenderCall("toggleTaskCompletion", "notFound", last.view)
            /\ UNCHANGED <<tasks, slot, refused>>
    /\ UNCHANGED <<phase, currentFilter, isInitialized, confirmation, now>>

\* the accept callback of the delete confirmation of an item of the displayed
\* list: removeTask(taskId) with its saveTasks() and render()
RenderAfterRemove(taskId) ==
    /\ phase = "ready"
    /\ last.view.listDisplay # "none"
    /\ \E i \in DOMAIN last.view.items : last.view.items[i].id = taskId
    /\ IF findIndex(tasks, taskId) # 0
       THEN /\ tasks' = removeTaskResult(tasks, taskId)
            /\ Persist(removeTaskResult(tasks, taskId),
                       RenderCall("removeTask", "removed",
                                  renderTaskList(last.view,
                                                 removeTaskResult(tasks, taskId),
                                                 currentFilter)))
       ELSE /\ last' = RenderCall("removeTask", "notFound", last.view)
            /\ UNCHANGED <<tasks, slot, refused>>
    /\ UNCHANGED <<phase, currentFilter, isInitialized, confirmation, now>>

\* the accept callback of a clear confirmation, which clearCompletedTasks
\* opens when a task is completed: the filter, saveTasks() and render()
RenderAfterClear ==
    /\ phase = "ready"
    /\ completedCount(tasks) > 0
    /\ tasks' = clearCompletedResult(tasks)
    /\ Persist(clearCompletedResult(tasks),
               RenderCall("clearCompletedTasks", "cleared",
                          renderTaskList(last.view, clearCompletedResult(tasks),
                                         currentFilter)))
    /\ UNCHANGED <<phase, currentFilter, isInitialized, confirmation, now>>

\* handleFilterClick: the new filter and render(), or nothing
RenderAfterFilter(filter) ==
    /\ phase = "ready"
    /\ IF filter # currentFilter
       THEN /\ currentFilter' = filter
            /\ last' = RenderCall("filterClick", "changed",
                                  renderTaskList(last.view, tasks, filter))
       ELSE /\ last' = RenderCall("filterClick", "same", last.view)
            /\ UNCHANGED currentFilter
    /\ UNCHANGED <<phase, tasks, isInitialized, slot, confirmation, now, refused>>

RenderNext ==
    \/ RenderAtInit
    \/ \E text \in ViewTexts : RenderAfterAdd(text)
    \/ \E taskId \in TaskIds : RenderAfterToggle(taskId)
    \/ \E taskId \in TaskIds : RenderAfterRemove(taskId)
    \/ RenderAfterClear
    \/ \E filter \in Filters : RenderAfterFilter(filter)

RenderSpec == RenderInit /\ [][RenderNext]_vars

-----------------------------------------------------------------------------
(* The real-time validation of the input, called on its own *)

\* the number of input events of a run
MaxInputs == 3

\* the values the input takes: empty, valid, and with a character outside
\* ALLOWED_CHARS
InputValues == {<<>>, <<"a">>, <<"a", "b">>, <<"a", "^">>}

\* debouncedValidation without its clearTimeout
debouncedValidationKeepsTimer(timers, validationTimeout, timer) ==
    timers \cup {timer}

\* debouncedValidation: the pending timers after
\* clearTimeout(validationTimeout) and setTimeout(validateInput, 300)
debouncedValidation(timers, validationTimeout, timer) ==
    (timers \ {validationTimeout}) \cup {timer}

\* the class validateInput leaves on the input
MarkingOf(value) ==
    IF Len(value) > 0
    THEN IF validateTaskText(value).isValid THEN "valid" ELSE "invalid"
    ELSE "none"

\* the listeners that the returned cleanup function leaves on the element:
\* input and blur are removed with the functions that were added; the
\* function handed to removeEventListener for focus is a new one, so the
\* focus listener stays
cleanup(listeners) == listeners \ {"input", "blur"}

\* the state of one setupRealTimeValidation: the event or call that came
\* last, the value of the input, its valid/invalid class, the timers pending,
\* the timer validationTimeout names and the number of timers set so far,
\* the listeners on the element, whether the cleanup function has run,
\* whether the last step called the callback and with which validation, and
\* the number of callbacks made by timers since the last input event
Validation(op, value, marking, timers, validationTimeout, issued, listeners, cleaned, invoked, result, fired) ==
    [op |-> op, value |-> value, marking |-> marking, timers |-> timers,
     validationTimeout |-> validationTimeout, issued |-> issued,
     listeners |-> listeners, cleaned |-> cleaned, invoked |-> invoked,
     result |-> result, fired |-> fired]

\* setupRealTimeValidation(inputElement, callback) has returned
DebounceInit ==
    /\ phase = "validation"
    /\ tasks = <<>>
    /\ currentFilter = "all"
    /\ isInitialized = FALSE
    /\ slot = Absent
    /\ confirmation = NoConfirmation
    /\ now = 1
    /\ refused = 0
    /\ last = Validation("setup", <<>>, "none", {}, 0, 0, {"input", "blur", "focus"},
                         FALSE, FALSE, validateTaskText(<<>>), 0)

\* the rest of the state, which the real-time validation does not touch
DebounceFrame ==
    UNCHANGED <<phase, tasks, currentFilter, isInitialized, slot, confirmation,
                now, refused>>

\* the user changes the value: an input event, which debouncedValidation
\* handles while it is a listener
InputEvent(value) ==
    /\ last.issued < MaxInputs
    /\ last' = IF "input" \in last.listeners
               THEN [last EXCEPT !.op = "input", !.value = value,
                                 !.timers = debouncedValidation(last.timers,
                                                                last.validationTimeout,
                                                                last.issued + 1),
                                 !.validationTimeout = last.issued + 1,
                                 !.issued = last.issued + 1,
                                 !.invoked = FALSE, !.fired = 0]
               ELSE [last EXCEPT !.op = "input", !.value = value,
                                 !.issued = last.issued + 1,
                                 !.invoked = FALSE]
    /\ DebounceFrame

\* a pending timer expires: validateInput marks the input and calls the
\* callback with the validation of the value the input has now
TimerFires(timer) ==
    /\ timer \in last.timers
    /\ last' = [last EXCEPT !.op = "timer", !.timers = last.timers \ {timer},
                            !.marking = MarkingOf(last.value),
                            !.invoked = TRUE,
                            !.result = validateTaskText(last.value),
                            !.fired = last.fired + 1]
    /\ DebounceFrame

\* a blur event: validateInput at once, while it is a listener
BlurEvent ==
    /\ last' = IF "blur" \in last.listeners
               THEN [last EXCEPT !.op = "blur", !.marking = MarkingOf(last.value),
                                 !.invoked = TRUE,
                                 !.result = validateTaskText(last.value)]
               ELSE [last EXCEPT !.op = "blur", !.invoked = FALSE]
    /\ DebounceFrame

\* a focus event: the listener removes the classes valid and invalid
FocusEvent ==
    /\ last' = IF "focus" \in last.listeners
               THEN [last EXCEPT !.op = "focus", !.marking = "none",
                                 !.invoked = FALSE]
               ELSE [last EXCEPT !.op = "focus", !.invoked = FALSE]
    /\ DebounceFrame

\* the function that setupRealTimeValidation returned is called
Cleanup ==
    /\ ~last.cleaned
    /\ last' = [last EXCEPT !.op = "cleanup",
                            !.timers = last.timers \ {last.validationTimeout},
                            !.listeners = cleanup(last.listeners),
                            !.cleaned = TRUE, !.invoked = FALSE]
    /\ DebounceFrame

DebounceNext ==
    \/ \E value \in InputValues : InputEvent(value)
    \/ \E timer \in 1..MaxInputs : TimerFires(timer)
    \/ BlurEvent
    \/ FocusEvent
    \/ Cleanup

DebounceSpec == DebounceInit /\ [][DebounceNext]_vars

-----------------------------------------------------------------------------
(* The sanitizer, called on its own *)

\* .replace(/\s+/g, ' '): every run of whitespace becomes one space. The
\* characters kept are those that are not whitespace and the last one of
\* each run, which is written as a space
ReplaceWhitespaceRuns(s) ==
    LET kept == {i \in DOMAIN s :
                    \/ s[i] \notin Whitespace
                    \/ i = Len(s)
                    \/ s[i + 1] \notin Whitespace}
        at(k) == CHOOSE i \in kept : Cardinality({j \in kept : j <= i}) = k
    IN  [k \in 1..Cardinality(kept) |->
            IF s[at(k)] \in Whitespace THEN " " ELSE s[at(k)]]

IsAngleBracket(c) == c \in {"<", ">"}

IsNotAngleBracket(c) == ~IsAngleBracket(c)

\* .replace(/[<>]/g, '')
RemoveAngleBrackets(s) == SelectSeq(s, IsNotAngleBracket)

\* .substring(0, n)
Substring(s, n) == SubSeq(s, 1, IF Len(s) < n THEN Len(s) ELSE n)

\* sanitizeTaskText(text): trim, then the whitespace runs, then the angle
\* brackets, then the length
sanitizeTaskText(text) ==
    IF text = <<>> THEN <<>>
    ELSE Substring(RemoveAngleBrackets(ReplaceWhitespaceRuns(Trim(text))), MAX_LENGTH)

\* the texts sanitizeTaskText is called with: every short text of letters,
\* blanks and angle brackets, a tag between two words, a tab and a line
\* break between two words, the longest valid text, and a text whose
\* character at MAX_LENGTH is a blank
SanitizerTexts ==
    SeqsUpTo({"a", " ", "<"}, MaxTextLen)
    \cup { <<"a", " ", "<", "b", ">", " ", "c">>,
           <<" ", "a", "\t", "\n", "b", " ">>,
           MaxText,
           LongText,
           SubSeq(LongText, 1, MAX_LENGTH - 1) \o <<" ", "b">> }

\* the record of a sanitizer call: the text it was called with, the text it
\* returned, and for a call on the result of an earlier call, that call's
\* text
SanitizerCall(op, text, result, raw) ==
    [op |-> op, text |-> text, result |-> result, raw |-> raw]

SanitizerInit ==
    /\ phase = "sanitizer"
    /\ tasks = <<>>
    /\ currentFilter = "all"
    /\ isInitialized = FALSE
    /\ slot = Absent
    /\ confirmation = NoConfirmation
    /\ now = 1
    /\ refused = 0
    /\ \E text \in SanitizerTexts : last = SanitizerCall("none", text, <<>>, <<>>)

\* sanitizeTaskText(text) on the text drawn
SanitizeTaskText ==
    /\ last.op = "none"
    /\ last' = SanitizerCall("sanitizeTaskText", last.text, sanitizeTaskText(last.text),
                             <<>>)
    /\ UNCHANGED <<phase, tasks, currentFilter, isInitialized, slot, confirmation,
                   now, refused>>

\* sanitizeTaskText on the text the first call returned
SanitizeAgain ==
    /\ last.op = "sanitizeTaskText"
    /\ last' = SanitizerCall("sanitizeAgain", last.result, sanitizeTaskText(last.result),
                             last.text)
    /\ UNCHANGED <<phase, tasks, currentFilter, isInitialized, slot, confirmation,
                   now, refused>>

SanitizerNext ==
    \/ SanitizeTaskText
    \/ SanitizeAgain

SanitizerSpec == SanitizerInit /\ [][SanitizerNext]_vars

-----------------------------------------------------------------------------
(* Vocabulary of the properties *)

IdsOf(ts) == {ts[i].id : i \in DOMAIN ts}

TextAccepted(text) == validateTaskText(text).isValid

\* the text with every run of whitespace made one space
RECURSIVE CollapseRuns(_)
CollapseRuns(s) ==
    IF s = <<>> THEN <<>>
    ELSE IF Head(s) \in Whitespace
    THEN IF Len(s) > 1 /\ s[2] \in Whitespace
         THEN CollapseRuns(Tail(s))
         ELSE <<" ">> \o CollapseRuns(Tail(s))
    ELSE <<Head(s)>> \o CollapseRuns(Tail(s))

\* the normalized form of a text: outer whitespace, the length of inner
\* whitespace runs and letter case do not count
Normalized(text) == ToLowerCase(CollapseRuns(Trim(text)))

\* the tasks of ts that are not completed, in their order
RECURSIVE ActivePart(_)
ActivePart(ts) ==
    IF ts = <<>> THEN <<>>
    ELSE IF Head(ts).completed THEN ActivePart(Tail(ts))
    ELSE <<Head(ts)>> \o ActivePart(Tail(ts))

\* what a load of the slot would return equals the collection in memory
PersistedMatchesMemory ==
    /\ slot.kind = "envelope"
    /\ loadTasks(slot).tasks = tasks

Mutated ==
    last.branch \in {"added", "removed", "toggled", "cleared"}

-----------------------------------------------------------------------------
(* Properties *)

\* C1: the task that a successful addTask has put at the head of the
\* collection has a text that validateTaskText accepts.
C1_AddTaskInsertsAcceptedText ==
    (last.op = "addTask" /\ last.branch = "added")
        => /\ Len(tasks) >= 1
           /\ TextAccepted(tasks[1].text)

\* C1 witness: an addTask has inserted a task in front of an earlier one.
C1_Witness ==
    /\ last.op = "addTask"
    /\ last.branch = "added"
    /\ Len(tasks) >= 2

\* C2 as claimed: once a task added in this session is in the collection, no
\* addTask inserts a text with the same normalized form.
C2_NormalizedDuplicateRejected ==
    (last.op = "addTask" /\ last.branch = "added")
        => \A i \in 2..Len(tasks) :
              tasks[i].createdAt >= 1
                  => Normalized(tasks[i].text) # Normalized(tasks[1].text)

\* C3 as claimed: no two tasks of the collection have the same id.
C3_IdsUnique ==
    \A i, j \in DOMAIN tasks : i # j => tasks[i].id # tasks[j].id

\* C4 as claimed: every task in the collection, and every task that a save
\* has written to the slot, has a text that validateTaskText accepts.
C4_TextsAcceptedAtRest ==
    /\ \A i \in DOMAIN tasks : TextAccepted(tasks[i].text)
    /\ (last.wrote /\ last.saved)
          => \A i \in DOMAIN slot.tasks : TextAccepted(slot.tasks[i].text)

\* C5 as claimed: after a toggle the slot matches memory, and after the second
\* of two toggles of one id the task has its original completed value.
C5_ToggleTwiceAndPersisted ==
    (last.op = "toggleTaskCompletion" /\ last.branch = "toggled")
        => /\ PersistedMatchesMemory
           /\ last.rep = 2
                 => tasks[findIndex(tasks, last.id)].completed = last.orig

\* C5 amended: after the second of two toggles of one id the task has its
\* original completed value, and after each toggle whose save succeeded the
\* slot matches memory.
C5_ToggleTwiceRestores ==
    (last.op = "toggleTaskCompletion" /\ last.branch = "toggled")
        => /\ last.wrote
           /\ last.saved => PersistedMatchesMemory
           /\ last.rep = 2
                 => tasks[findIndex(tasks, last.id)].completed = last.orig

\* C5 witness: a task was toggled twice in a row and both saves got through.
C5_Witness ==
    /\ last.op = "toggleTaskCompletion"
    /\ last.rep = 2
    /\ last.saved
    /\ refused = 0
    /\ PersistedMatchesMemory

\* C6 as claimed: after every call that changed the collection the slot
\* matches memory.
C6_WrittenBackAfterMutation ==
    Mutated => PersistedMatchesMemory

\* C6 amended: every call that changed the collection has called saveTasks,
\* and when that save succeeded the slot matches memory.
C6_WrittenBackWhenSaved ==
    Mutated => /\ last.wrote
               /\ last.saved => PersistedMatchesMemory

\* C6 witness: a task was removed from a longer collection and saved.
C6_Witness ==
    /\ last.branch = "removed"
    /\ last.saved
    /\ Len(tasks) >= 1
    /\ PersistedMatchesMemory

\* C7 as claimed: removeTask of a present id shortens the collection by one,
\* the id is absent afterwards, and the other tasks keep their order.
C7_RemoveDropsTheId ==
    [][(last'.op = "removeTask" /\ last'.branch = "removed")
          => /\ Len(tasks') = Len(tasks) - 1
             /\ last'.id \notin IdsOf(tasks')
             /\ \E k \in DOMAIN tasks :
                   tasks' = SubSeq(tasks, 1, k - 1) \o SubSeq(tasks, k + 1, Len(tasks))]_vars

C9_ClearKeepsActivePart ==
    [][(last'.op = "accept" /\ last'.branch = "cleared")
          => /\ tasks' = ActivePart(tasks)
             /\ Len(tasks') = Len(tasks) - completedCount(tasks)]_vars

\* C9 witness: an accepted clear has kept two tasks.
C9_Witness ==
    /\ last.op = "accept"
    /\ last.branch = "cleared"
    /\ Len(tasks) >= 2

\* C10 as claimed: the count in the message of an accepted clear is the
\* number of tasks the clear removes, whatever was toggled or added while the
\* confirmation was open.
C10_ReportedCountIsRemovedCount ==
    [][(last'.op = "accept" /\ last'.branch = "cleared" /\ ~confirmation.bypassed)
          => last'.count = Len(tasks) - Len(tasks')]_vars

-----------------------------------------------------------------------------
(* Properties of the storage gateway, of the projection and of addTask *)

\* a collection whose ids JSON can carry
ValidCollection(ts) == \A i \in DOMAIN ts : ts[i].id # NotANumber

\* the entries of a parsed tasks array that are objects with a numeric id, a
\* string text and a boolean completed, in their order, as task objects
RECURSIVE KeptEntries(_)
KeptEntries(es) ==
    IF es = <<>> THEN <<>>
    ELSE LET e == Head(es)
         IN  IF e.isObject /\ e.idIsNumber /\ e.textIsString /\ e.completedIsBoolean
             THEN <<[id |-> e.id, text |-> e.text, completed |-> e.completed,
                     createdAt |-> e.createdAt]>> \o KeptEntries(Tail(es))
             ELSE KeptEntries(Tail(es))

\* a is b with some elements left out
RECURSIVE IsSubsequence(_, _)
IsSubsequence(a, b) ==
    IF a = <<>> THEN TRUE
    ELSE IF b = <<>> THEN FALSE
    ELSE IF Head(a) = Head(b) THEN IsSubsequence(Tail(a), Tail(b))
    ELSE IsSubsequence(a, Tail(b))

QuotaOutcomes == {"quotaRetryOk", "quotaRetryFails"}

\* the tasks of the collection are ordered by creation, newest first
NewestFirst ==
    \A i, j \in DOMAIN tasks : i < j => tasks[i].createdAt >= tasks[j].createdAt

\* C11: a loadTasks that follows a successful saveTasks of a valid collection
\* returns that collection: same order, same id, text, completed and createdAt.
C11_RoundTrip ==
    (last.op = "loadTasks" /\ last.afterSave /\ ValidCollection(tasks))
        => last.returned = tasks

\* C11 witness: two tasks were saved and loaded back.
C11_Witness ==
    /\ last.op = "loadTasks"
    /\ last.afterSave
    /\ ValidCollection(tasks)
    /\ Len(tasks) = 2
    /\ last.returned = tasks

\* C12: loadTasks on a payload that does not parse returns the empty array and
\* leaves the slot absent.
C12_CorruptPayloadDiscarded ==
    (last.op = "loadTasks" /\ last.before.kind = "corrupt")
        => /\ last.returned = <<>>
           /\ slot = Absent

\* C12 witness: loadTasks has returned on a corrupted payload.
C12_Witness ==
    /\ last.op = "loadTasks"
    /\ last.before.kind = "corrupt"
    /\ slot.kind = "absent"

\* C13: loadTasks returns the empty array when the slot is absent or empty and
\* when the payload parses but is no object or has no tasks array, and then
\* the slot is as it was.
C13_UnusablePayloadLeftAlone ==
    (last.op = "loadTasks"
       /\ last.before.kind \in {"absent", "emptyString", "notObject", "noTasksArray"})
        => /\ last.returned = <<>>
           /\ slot = last.before

\* C13 witness: loadTasks has returned on a payload without a tasks array.
C13_Witness ==
    /\ last.op = "loadTasks"
    /\ last.before.kind = "noTasksArray"
    /\ slot.kind = "noTasksArray"

\* C14: on a payload with a tasks array loadTasks returns exactly the entries
\* that are objects with a numeric id, a string text and a boolean completed,
\* in their stored order and with their stored fields, and leaves the slot.
C14_LoadKeepsWellShapedEntries ==
    (last.op = "loadTasks" /\ last.before.kind = "envelope")
        => /\ last.returned = KeptEntries(last.before.tasks)
           /\ slot = last.before

\* C14 witness: of two stored entries one was dropped and one returned.
C14_Witness ==
    /\ last.op = "loadTasks"
    /\ last.before.kind = "envelope"
    /\ Len(last.before.tasks) = 2
    /\ Len(last.returned) = 1

\* C15: on a quota failure saveTasks clears localStorage and writes a second
\* time, and only then; it returns true exactly when the first write or the
\* retry was taken, the slot then holds the collection; the caller's tasks
\* never change.
C15_QuotaClearsAndRetriesOnce ==
    /\ [](last.op = "saveTasks"
            => /\ last.outcome \in QuotaOutcomes
                    => (last.cleared /\ last.writes = 2 /\ ~last.others)
               /\ last.outcome \notin QuotaOutcomes
                    => (~last.cleared /\ last.writes = 1)
               /\ last.success <=> last.outcome \in {"ok", "quotaRetryOk"}
               /\ last.success => slot = Envelope(tasks))
    /\ [][tasks' = tasks]_vars

\* C15 witness: a write hit the quota, the store was cleared and the retry
\* was taken.
C15_Witness ==
    /\ last.op = "saveTasks"
    /\ last.outcome = "quotaRetryOk"
    /\ last.success
    /\ ~last.others
    /\ Len(tasks) >= 1

\* C16 as claimed: when the save that follows a change of the collection has
\* failed, a warning is on display.
C16_FailedSaveShowsWarning ==
    (Mutated /\ last.wrote /\ ~last.saved) => last.severity = "warning"

\* C17 as claimed: when the storage probe fails at startup nothing is loaded,
\* isInitialized stays false, an error message is shown and no exception
\* escapes.
C17_UnavailableStorageReported ==
    phase = "failed"
        => /\ tasks = <<>>
           /\ ~isInitialized
           /\ last.severity = "error"
           /\ last.ret # "TypeError"

\* C18: filterTasks with 'all' returns the tasks in their order; the results
\* for 'active' and 'completed' have no task in common, hold together every
\* task, and are each the tasks with some left out; filterTasks leaves its
\* argument alone.
C18_ProjectionPartitions ==
    /\ [](last.op = "filterTasks"
            => LET active == filterTasks(tasks, "active")
                   completed == filterTasks(tasks, "completed")
               IN  /\ last.returned = filterTasks(tasks, currentFilter)
                   /\ filterTasks(tasks, "all") = tasks
                   /\ Range(active) \cap Range(completed) = {}
                   /\ Range(active) \cup Range(completed) = Range(tasks)
                   /\ Len(active) + Len(completed) = Len(tasks)
                   /\ IsSubsequence(active, tasks)
                   /\ IsSubsequence(completed, tasks))
    /\ [][FilterTasks => tasks' = tasks]_vars

\* C18 witness: the 'active' filter has left out one of two tasks.
C18_Witness ==
    /\ last.op = "filterTasks"
    /\ currentFilter = "active"
    /\ Len(tasks) = 2
    /\ Len(last.returned) = 1

\* C19: a successful addTask puts the new task, not completed, in front of
\* the tasks that were there, which keep their order; a collection that holds
\* only tasks of this session is ordered newest first.
C19_AddTaskPrepends ==
    /\ [][(last'.op = "addTask" /\ last'.branch = "added")
            => /\ Len(tasks') = Len(tasks) + 1
               /\ ~tasks'[1].completed
               /\ tasks'[1].id = last'.id
               /\ Tail(tasks') = tasks]_vars
    /\ []((\A i \in DOMAIN tasks : tasks[i].createdAt >= 1) => NewestFirst)

\* C19 witness: a task was added in front of an older task of this session.
C19_Witness ==
    /\ last.op = "addTask"
    /\ last.branch = "added"
    /\ Len(tasks) >= 2
    /\ tasks[2].createdAt >= 1
    /\ tasks[1].createdAt > tasks[2].createdAt

\* C20: an addTask that takes one of the rejecting returns shows an error for
\* a text the validator rejects and a warning for a duplicate, returns false,
\* leaves the collection, the filter and the slot as they were and does not
\* call saveTasks; and an addTask that inserts has taken neither: the text it
\* inserted is accepted by the validator and checkForDuplicates does not find
\* it among the tasks that were there.
C20_RejectedAddChangesNothing ==
    /\ [][(last'.op = "addTask" /\ last'.branch # "added")
            => /\ last'.branch \in {"invalid", "duplicate"}
               /\ last'.ret = "false"
               /\ last'.severity = IF last'.branch = "duplicate" THEN "warning"
                                   ELSE "error"
               /\ tasks' = tasks
               /\ currentFilter' = currentFilter
               /\ slot' = slot
               /\ ~last'.wrote]_vars
    /\ []((last.op = "addTask" /\ last.branch = "added")
            => /\ TextAccepted(tasks[1].text)
               /\ ~checkForDuplicates(tasks[1].text, Tail(tasks)))

\* C20 witness: an addTask was rejected as a duplicate of a task added in this
\* session.
C20_Witness ==
    /\ last.op = "addTask"
    /\ last.branch = "duplicate"
    /\ \E i \in DOMAIN tasks : tasks[i].createdAt >= 1

-----------------------------------------------------------------------------
(* Properties of the confirmation, of the filter, of the unload and of the
   validator *)

\* C21: removal is gated by confirmation. A step of a delete click, of a
\* clear-completed click or of a cancelled confirmation leaves the collection
\* and the slot unchanged; a step that takes a task out of the collection is
\* the accept of the confirmation that was open before it, and it removes the
\* task that confirmation named (a delete confirmation) or the completed tasks
\* (a clear confirmation); while a confirmation stays open, unanswered, no task
\* leaves the collection.
C21_RemovalGatedByConfirmation ==
    [][ /\ last'.op \in {"deleteClick", "clearCompletedTasks", "cancel"}
            => tasks' = tasks /\ slot' = slot
        /\ Len(tasks') < Len(tasks)
            => /\ last'.op = "accept"
               /\ confirmation.kind # "none"
               /\ confirmation' = NoConfirmation
               /\ confirmation.kind = "delete"
                    => /\ last'.branch = "removed"
                       /\ last'.id = confirmation.id
                       /\ tasks' = removeTaskResult(tasks, confirmation.id)
               /\ confirmation.kind = "clear"
                    => /\ last'.branch = "cleared"
                       /\ tasks' = clearCompletedResult(tasks)
        /\ (confirmation' = confirmation /\ confirmation.kind # "none")
            => Len(tasks') >= Len(tasks) ]_vars

\* an accepted delete confirmation has removed its task, after a cancelled one
\* had left it in place
C21_Witness ==
    /\ last.op = "accept"
    /\ last.branch = "removed"
    /\ last.wrote
    /\ findIndex(tasks, last.id) = 0

\* C22: the document never holds two confirmation overlays; a
\* showConfirmation called while an overlay is open removes that overlay and
\* leaves only its own, and the continuations of the replaced request are not
\* invoked by the replacement.
C22_AtMostOnePrompt ==
    /\ [](Len(confirmation) <= 1)
    /\ [][ last'.op = "showConfirmation"
              => /\ confirmation' = <<last'.req>>
                 /\ \A r \in 1..MaxRequests :
                       r # last'.req => last'.calls[r] = last.calls[r] ]_vars

\* a second request was made while the first was open: the first is gone
\* unanswered and the second is open
C22_Witness ==
    /\ last.op = "showConfirmation"
    /\ last.req = 2
    /\ last.calls[1].answered = "none"
    /\ confirmation = <<2>>

\* C23: a request answered by the Accept button or the Enter key has had its
\* accept continuation invoked once and its cancel continuation never; one
\* answered by the Cancel button or the Escape key the converse; an unanswered
\* request has had neither invoked; and an answered request's overlay is no
\* longer in the document.
C23_ExactlyOneContinuationOnce ==
    \A r \in 1..MaxRequests :
        LET c == last.calls[r]
        IN  /\ c.answered = "accept" => c.accepted = 1 /\ c.cancelled = 0
            /\ c.answered = "cancel" => c.accepted = 0 /\ c.cancelled = 1
            /\ c.answered = "none" => c.accepted = 0 /\ c.cancelled = 0
            /\ c.answered # "none" => \A i \in DOMAIN confirmation : confirmation[i] # r
            /\ last.op \in {"clickAccept", "keyEnter"} /\ last.req = r
                 => c.answered = "accept"
            /\ last.op \in {"clickCancel", "keyEscape"} /\ last.req = r
                 => c.answered = "cancel"

\* one request was accepted with the Enter key and a later one cancelled
\* with the Escape key
C23_Witness ==
    /\ last.op = "keyEscape"
    /\ last.req = 2
    /\ last.calls[1].answered = "accept"
    /\ last.calls[1].accepted = 1
    /\ last.calls[2].cancelled = 1
    /\ confirmation = <<>>

\* C24: clearCompletedTasks called while no task of the collection is
\* completed shows a message of type warning, opens no confirmation (the
\* confirmation state is what it was), makes no write and leaves the collection
\* and the slot unchanged.
C24_NothingToClearWarns ==
    [][ (/\ last'.op = "clearCompletedTasks"
         /\ \A i \in DOMAIN tasks : ~tasks[i].completed)
            => /\ last'.branch = "nothingToClear"
               /\ last'.severity = "warning"
               /\ ~last'.wrote
               /\ confirmation' = confirmation
               /\ tasks' = tasks
               /\ slot' = slot ]_vars

\* the clear was asked for on a collection that has tasks, none completed
C24_Witness ==
    /\ last.op = "clearCompletedTasks"
    /\ last.branch = "nothingToClear"
    /\ last.severity = "warning"
    /\ tasks # <<>>
    /\ \A i \in DOMAIN tasks : ~tasks[i].completed
    /\ confirmation = NoConfirmation

\* C25: a filter click changes the active filter and nothing else: the
\* collection, the slot, the confirmation and the rest of the state are what
\* they were, and no write is made; a click on the button of the active filter
\* changes nothing at all.
C25_FilterClickOnlySetsFilter ==
    [][ last'.op = "filterClick"
            => /\ tasks' = tasks
               /\ slot' = slot
               /\ ~last'.wrote
               /\ UNCHANGED <<phase, isInitialized, confirmation, now, refused>>
               /\ last'.branch = "changed"
                    => currentFilter' # currentFilter /\ currentFilter' \in Filters
               /\ last'.branch = "same" => currentFilter' = currentFilter ]_vars

\* the filter was changed while the collection and the slot held tasks
C25_Witness ==
    /\ last.op = "filterClick"
    /\ last.branch = "changed"
    /\ currentFilter = "completed"
    /\ tasks # <<>>
    /\ slot.kind = "envelope"

\* C26: the active filter is always one of all, active and completed; it is
\* all when initialize has just run; and the stored value has the envelope's
\* fields only, with task entries that have a task's fields only, so the
\* filter is in none of them.
C26_FilterInRangeAndNotStored ==
    /\ currentFilter \in Filters
    /\ last.op = "init" => currentFilter = "all"
    /\ DOMAIN slot = {"kind", "tasks"}
    /\ \A i \in DOMAIN slot.tasks :
          DOMAIN slot.tasks[i] = {"isObject", "idIsNumber", "textIsString",
                                  "completedIsBoolean", "id", "text", "completed",
                                  "createdAt"}

\* the collection was written to the slot while the filter was not all
C26_Witness ==
    /\ currentFilter = "active"
    /\ last.op \in {"addTask", "toggleTaskCompletion", "accept"}
    /\ last.wrote
    /\ last.saved
    /\ slot = Envelope(tasks)
    /\ tasks # <<>>

\* C27 as stated: the unload makes one call of saveTasks, does not throw and
\* shows nothing.
C27_TeardownWritesOnce ==
    last.op = "teardown"
        => /\ last.writes = 1
           /\ last.ret = "undefined"
           /\ last.severity = ""

\* C27, amended: the unload calls saveTasks on the in-memory collection once
\* from each beforeunload listener, twice after a successful init and once
\* after a failed one; whatever localStorage does to these writes, the unload
\* returns normally, shows no message and leaves the collection unchanged, and
\* the slot holds the collection when the last write was taken, and otherwise
\* the collection, its previous value or nothing.
C27_TeardownWritesBestEffort ==
    [][ last'.op = "teardown"
            => /\ last'.writes = (IF phase = "ready" THEN 2 ELSE 1)
               /\ last'.ret = "undefined"
               /\ last'.severity = ""
               /\ tasks' = tasks
               /\ last'.saved => slot' = Envelope(tasks)
               /\ slot' \in {slot, Absent, Envelope(tasks)} ]_vars

\* the page was unloaded with tasks in memory and the last write was refused
C27_Witness ==
    /\ last.op = "teardown"
    /\ last.writes = 2
    /\ ~last.saved
    /\ tasks # <<>>
    /\ slot # Envelope(tasks)

\* C28: no handler of a control (form submit, checkbox click, delete click,
\* filter click, clear-completed click, and the buttons of the confirmation)
\* ends by throwing; a delete or checkbox click on an id that the collection
\* does not hold returns normally.
C28_HandlersDoNotThrow ==
    last.op \in {"addTask", "toggleTaskCompletion", "deleteClick", "filterClick",
                 "clearCompletedTasks", "accept", "cancel"}
        => last.ret # "TypeError"

\* the rules of the validator in the order they are applied, each with the name
\* of its message; the length rule has two
RuleOrder ==
    <<"required", "empty", "tooLong", "invalidChars", "forbidden",
      "excessiveWhitespace", "repetitive">>

\* c is text without its outer whitespace
IsTrimOf(c, text) ==
    /\ c # <<>> => c[1] \notin Whitespace /\ c[Len(c)] \notin Whitespace
    /\ \E lo \in 0..Len(text) :
         /\ lo + Len(c) <= Len(text)
         /\ \A i \in 1..Len(text) :
               IF i > lo /\ i <= lo + Len(c) THEN text[i] = c[i - lo]
               ELSE text[i] \in Whitespace

\* whether the text breaks the rule, each rule taken alone
Breaks(rule, text) ==
    \E c \in {SubSeq(text, lo, hi) : lo \in 1..(Len(text) + 1), hi \in 0..Len(text)} :
        /\ IsTrimOf(c, text)
        /\ CASE rule = "required" -> text = <<>>
             [] rule = "empty" -> Len(c) < MIN_LENGTH
             [] rule = "tooLong" -> Len(c) > MAX_LENGTH
             [] rule = "invalidChars" -> \E i \in DOMAIN c : ~AllowedChar(c[i])
             [] rule = "forbidden" ->
                    \E w \in FORBIDDEN_WORDS : Includes(ToLowerCase(c), w)
             [] rule = "excessiveWhitespace" -> ExcessiveWhitespace(c)
             [] rule = "repetitive" -> RepetitiveChars(c)

\* the message of the first rule of RuleOrder that the text breaks, or the
\* empty message
FirstFailure(text) ==
    IF \E k \in DOMAIN RuleOrder : Breaks(RuleOrder[k], text)
    THEN RuleOrder[CHOOSE k \in DOMAIN RuleOrder :
                       /\ Breaks(RuleOrder[k], text)
                       /\ \A j \in 1..(k - 1) : ~Breaks(RuleOrder[j], text)]
    ELSE ""

\* C29: when validateTaskText accepts a text and returns the sanitized text
\* c, validateTaskText(c) accepts too and returns c.
C29_ValidateIdempotent ==
    last.op = "validateSanitized"
        => /\ last.result.isValid
           /\ last.result.sanitizedText = last.text

\* the sanitized text of a text with outer blanks was validated again
C29_Witness ==
    /\ last.op = "validateSanitized"
    /\ last.raw # last.text
    /\ last.result.isValid
    /\ last.result.sanitizedText = <<"a", " ", "a">>

\* C30 as stated: the message is that of the first rule broken, in the order
\* required, length, characters, words, whitespace, repetition, and a text
\* that is empty after trimming is reported as required; an accepted text
\* comes back trimmed.
C30_FirstFailureBlankIsRequired ==
    last.op = "validateTaskText"
        => /\ last.result.message =
                 (IF \A i \in DOMAIN last.text : last.text[i] \in Whitespace
                  THEN "required" ELSE FirstFailure(last.text))
           /\ last.result.isValid <=> last.result.message = ""
           /\ last.result.isValid => IsTrimOf(last.result.sanitizedText, last.text)

\* C30, amended: the message is that of the first rule broken, in the order
\* required, length, characters, words, whitespace, repetition, where only the
\* empty text breaks the required rule and a text of whitespace alone breaks
\* the length rule, with the message of a text that is empty; an accepted text
\* comes back trimmed.
C30_FirstFailureWins ==
    last.op = "validateTaskText"
        => /\ last.result.message = FirstFailure(last.text)
           /\ last.text = <<>> <=> last.result.message = "required"
           /\ (last.text # <<>> /\ \A i \in DOMAIN last.text : last.text[i] \in Whitespace)
                <=> last.result.message = "empty"
           /\ last.result.isValid <=> last.result.message = ""
           /\ last.result.isValid => IsTrimOf(last.result.sanitizedText, last.text)

\* a text that breaks the rule of the characters and the rule of the words
\* was refused for its characters
C30_Witness ==
    /\ last.op = "validateTaskText"
    /\ Breaks("invalidChars", last.text)
    /\ Breaks("forbidden", last.text)
    /\ last.result.message = "invalidChars"

-----------------------------------------------------------------------------
(* Properties of the import, of the scenario, of the fields of a task, of the
   rendered list, of the real-time validation and of the sanitizer *)

\* the elements of es whose text is a non-empty string after trimming
RECURSIVE WithText(_)
WithText(es) ==
    IF es = <<>> THEN <<>>
    ELSE IF Head(es).isObject /\ Head(es).textIsString
            /\ \E i \in DOMAIN Head(es).text : Head(es).text[i] \notin Whitespace
    THEN <<Head(es)>> \o WithText(Tail(es))
    ELSE WithText(Tail(es))

\* C31: importTasks throws unless the document has a tasks array; otherwise
\* it returns one task for each element whose text is a non-empty string
\* after trimming, in order and with the trimmed text, and every task it
\* returns has an id that is a positive number, a boolean completed and a
\* createdAt.
C31_ImportRepairsEveryField ==
    last.op = "importTasks"
        => /\ last.thrown <=> last.doc.kind # "document"
           /\ ~last.thrown
                => LET kept == WithText(last.doc.tasks)
                   IN  /\ Len(last.returned) = Len(kept)
                       /\ \A i \in DOMAIN kept :
                             /\ IsTrimOf(last.returned[i].text, kept[i].text)
                             /\ last.returned[i].idKind = "positive"
                             /\ last.returned[i].id > 0
                             /\ last.returned[i].completed \in BOOLEAN
                             /\ last.returned[i].createdAtKind # "absent"

\* C32: the steps of the scenario, each from the state the one before it
\* leaves. Adding "Buy milk" to the empty collection gives one task, not
\* completed; toggling the id of that task makes it completed; adding "Buy
\* milk" while the collection holds it is refused as a duplicate and changes
\* nothing; adding a blank text is refused as invalid and changes nothing;
\* clearing the collection that holds the one completed task asks for a
\* confirmation that counts 1, and accepting it empties the collection and
\* reports the count 1.
C32_Scenario ==
    [][ LET one == Len(tasks) = 1 /\ tasks[1].text = BuyMilk
        IN  /\ (tasks = <<>> /\ AddTask(BuyMilk))
                => /\ last'.branch = "added"
                   /\ Len(tasks') = 1
                   /\ tasks'[1].text = BuyMilk
                   /\ ~tasks'[1].completed
            /\ (one /\ ~tasks[1].completed /\ ToggleTaskCompletion(tasks[1].id))
                => tasks' = <<[tasks[1] EXCEPT !.completed = TRUE]>>
            /\ (one /\ AddTask(BuyMilk))
                => /\ last'.branch = "duplicate"
                   /\ last'.ret = "false"
                   /\ tasks' = tasks
            /\ AddTask(BlankText)
                => /\ last'.branch = "invalid"
                   /\ last'.ret = "false"
                   /\ tasks' = tasks
            /\ (one /\ tasks[1].completed /\ ClearCompletedTasks)
                => /\ confirmation'.kind = "clear"
                   /\ confirmation'.count = 1
                   /\ tasks' = tasks
            /\ (one /\ tasks[1].completed /\ confirmation.kind = "clear" /\ ConfirmAccept)
                => /\ tasks' = <<>>
                   /\ last'.branch = "cleared"
                   /\ last'.severity = "success"
                   /\ last'.count = 1 ]_vars

\* the end of the scenario: the accepted clear has reported the count 1 and
\* the collection, in which only "Buy milk" ever was, is empty again
C32_Witness ==
    /\ last.op = "accept"
    /\ last.branch = "cleared"
    /\ last.count = 1
    /\ tasks = <<>>
    /\ now = 1
    /\ slot = Envelope(<<>>)

\* the fields of the tasks of ts that are fixed at creation
Core(ts) ==
    [i \in DOMAIN ts |->
        [id |-> ts[i].id, text |-> ts[i].text, createdAt |-> ts[i].createdAt]]

\* C33: no step changes the id, the text or the createdAt of a task that
\* stays in the collection. An add leaves the tasks that were there as they
\* were, behind the new one; a toggle changes the completed field of the
\* first task with the id and nothing else; an accepted delete or clear
\* leaves the remaining tasks as they were, in order; a filter click, a
\* delete click, a clear click, a cancel and the saves of the unload leave
\* the collection as it was.
C33_CreationFieldsImmutable ==
    [][ LET op == last'.op
        IN  /\ op = "addTask" => tasks' = tasks \/ Tail(tasks') = tasks
            /\ op = "toggleTaskCompletion"
                 => \/ tasks' = tasks /\ last'.branch = "notFound"
                    \/ \E i \in DOMAIN tasks :
                          /\ tasks[i].id = last'.id
                          /\ \A j \in 1..(i - 1) : tasks[j].id # last'.id
                          /\ tasks' = [tasks EXCEPT ![i].completed = ~tasks[i].completed]
            /\ op = "toggleTaskCompletion" => Core(tasks') = Core(tasks)
            /\ op = "accept" => IsSubsequence(tasks', tasks)
            /\ op \in {"filterClick", "deleteClick", "clearCompletedTasks", "cancel",
                       "teardown"}
                 => tasks' = tasks
            /\ op # "init"
                 => \/ IsSubsequence(Core(tasks'), Core(tasks))
                    \/ IsSubsequence(Core(tasks), Core(tasks')) ]_vars

\* one of two tasks with the same id was toggled, after a filter click, and
\* the other and the fields fixed at creation are as they were loaded
C33_Witness ==
    /\ last.op = "toggleTaskCompletion"
    /\ last.branch = "toggled"
    /\ Len(tasks) = 2
    /\ tasks[1].id = tasks[2].id
    /\ tasks[1].completed
    /\ tasks[2].completed
    /\ currentFilter # "all"

\* C34: after init, after every mutation that succeeded and after every
\* change of the filter, when some task passes the filter the list is
\* displayed, the empty state is hidden, and the list shows the tasks that
\* pass the filter, in their order; so a task added to an empty list is shown
\* as the first item.
C34_ViewMatchesProjection ==
    (/\ last.op # "none"
     /\ last.branch \in {"initialized", "added", "toggled", "removed", "cleared",
                         "changed"}
     /\ filterTasks(tasks, currentFilter) # <<>>)
        => /\ last.view.listDisplay # "none"
           /\ last.view.emptyStateHidden
           /\ last.view.items =
                 [i \in DOMAIN filterTasks(tasks, currentFilter) |->
                     createTaskElement(filterTasks(tasks, currentFilter)[i])]

\* C35: at most one validation timer is pending; an input event leaves its
\* own timer as the only one pending; when a timer expires the callback is
\* called with the validation of the value the input has then; and once no
\* timer is pending after input events, a timer has called the callback
\* exactly once since the last of them, with the validation of the final
\* value.
C35_DebouncedValidation ==
    /\ [](Cardinality(last.timers) <= 1)
    /\ []((last.issued > 0 /\ ~last.cleaned)
            => IF last.timers = {}
               THEN /\ last.fired = 1
                    /\ last.op = "timer" => last.result = validateTaskText(last.value)
               ELSE last.fired = 0)
    /\ [][ /\ (last'.op = "input" /\ ~last.cleaned)
               => /\ last'.timers = {last'.validationTimeout}
                  /\ last'.validationTimeout \notin last.timers
                  /\ ~last'.invoked
           /\ last'.op = "timer"
               => /\ last'.invoked
                  /\ last'.result = validateTaskText(last.value)
                  /\ last'.value = last.value
                  /\ last'.timers = {} ]_vars

\* three input events came before any timer expired, and the one timer then
\* pending has called the callback with the validation of the last value
C35_Witness ==
    /\ last.op = "timer"
    /\ last.issued = 3
    /\ last.fired = 1
    /\ last.timers = {}
    /\ last.value = <<"a", "^">>
    /\ ~last.result.isValid

\* C36: once the cleanup function has run no listener and no timer of
\* setupRealTimeValidation is left, and from then on no event on the element
\* calls the callback or changes the valid/invalid class of the input.
C36_CleanupComplete ==
    /\ [](last.cleaned => last.listeners = {} /\ last.timers = {})
    /\ [][ last.cleaned => ~last'.invoked /\ last'.marking = last.marking ]_vars

\* C37: a request whose overlay was replaced by a later showConfirmation has
\* had neither continuation invoked, and no later step invokes one: every
\* step leaves the record of a request whose overlay is not in the document
\* as it was, and a button or key answers the most recent request only.
C37_ReplacedRequestNeverContinues ==
    /\ [](\A r \in 1..MaxRequests :
             (r < now /\ last.calls[r].answered = "none")
                => last.calls[r].accepted = 0 /\ last.calls[r].cancelled = 0)
    /\ [][ /\ \A r \in 1..MaxRequests :
                 (r <= now /\ r \notin Range(confirmation))
                    => last'.calls[r] = last.calls[r]
           /\ last'.op \in {"clickAccept", "clickCancel", "keyEnter", "keyEscape"}
                 => last'.req = now ]_vars

\* the first request was replaced by the second, unanswered, and the second
\* was then accepted: only its accept continuation has run
C37_Witness ==
    /\ last.op = "clickAccept"
    /\ last.req = 2
    /\ last.calls[1].kind # "none"
    /\ last.calls[1].answered = "none"
    /\ last.calls[1].accepted = 0
    /\ last.calls[1].cancelled = 0
    /\ last.calls[2].accepted = 1
    /\ confirmation = <<>>

\* C38: sanitizeTaskText applied to its own result returns that result; and
\* its result has at most MAX_LENGTH characters, no angle bracket, no
\* whitespace at either end and no two whitespace characters in a row.
C38_SanitizeIdempotentNormalizing ==
    /\ last.op = "sanitizeAgain" => last.result = last.text
    /\ last.op = "sanitizeTaskText"
         => LET c == last.result
            IN  /\ Len(c) <= MAX_LENGTH
                /\ \A i \in DOMAIN c : ~IsAngleBracket(c[i])
                /\ c # <<>> => c[1] \notin Whitespace /\ c[Len(c)] \notin Whitespace
                /\ \A i \in 1..(Len(c) - 1) :
                      ~(c[i] \in Whitespace /\ c[i + 1] \in Whitespace)

=============================================================================
